---------------------------- MODULE Spec2Model ----------------------------
(***************************************************************************)
(* Model of the security-probe orchestration engine of the QA tester:      *)
(* token forging and redaction (utils/jwt.utils), the status classifiers   *)
(* of the attack modules, the attack runners with their request/response   *)
(* evidence (utils/evidence), the flood probe, and the run-suite main.     *)
(*                                                                         *)
(* Strings that the code inspects character by character (tokens, header   *)
(* values) are sequences of one-character strings.                         *)
(*                                                                         *)
(* Four specifications share the variables:                                *)
(*   SpecFn      the pure functions applied to inputs drawn from bounded   *)
(*               sets (redactToken, the classifiers, computeExitCode);     *)
(*   SpecAttack  one status-classifying attack module run case by case,    *)
(*               with the evidence records it writes;                      *)
(*   SpecFlood   runRateLimitAttacks request by request;                   *)
(*   Spec        main of the run-suite entry point, step by step.          *)
(***************************************************************************)
EXTENDS Integers, Sequences, FiniteSets, TLC

VARIABLES
    call,       \* SpecFn: the pending call [fn, token, status, all]
    ret,        \* SpecFn: its result [done, token, again, jwt, idor, priv, upload, code]
    atk,        \* SpecAttack: the running attack module (see InitAttack)
    disk,       \* the evidence files written so far, in order
    flood,      \* SpecFlood: the running flood module (see InitFlood)
    run,        \* Spec: the state of main (see Init)
    edge,       \* SpecEdge: the edge-case engines and the watcher lists (see InitEdge)
    watch       \* SpecWatch: the console and the network watcher (see InitWatch)

vars == <<call, ret, atk, disk, flood, run, edge, watch>>

-----------------------------------------------------------------------------
(* Generic helpers *)

Max(a, b) == IF a >= b THEN a ELSE b

Range(s) == {s[i] : i \in 1..Len(s)}

\* a slice that ignores its start index
SliceWhole(s, from) == s

\* String.prototype.slice(from) for from >= 0, on a 1-based sequence
SliceFrom(s, from) == SubSeq(s, from + 1, Len(s))

\* '*'.repeat(n)
Stars(n) == [i \in 1..n |-> "*"]

\* haystack.includes(needle)
Contains(haystack, needle) ==
    \E k \in 0..(Len(haystack) - Len(needle)) :
        SubSeq(haystack, k + 1, k + Len(needle)) = needle

\* optional values: undefined / null is NoValue, a present value v is Some(v)
NoValue == <<>>
Some(v) == <<v>>

Severity == {"PASS", "INFO", "WARN", "FAIL", "CRITICAL"}

-----------------------------------------------------------------------------
(* utils/jwt.utils: redaction *)

\* number of trailing characters redactToken leaves readable
KeepChars == 10

redactTokenKeepsHead(token) ==
    IF Len(token) <= KeepChars
    THEN Stars(Len(token))
    ELSE SubSeq(token, 1, KeepChars) \o Stars(Max(0, Len(token) - KeepChars))

redactToken(token) ==
    IF Len(token) <= KeepChars
    THEN Stars(Len(token))
    ELSE Stars(Max(0, Len(token) - KeepChars)) \o SliceFrom(token, Len(token) - KeepChars)

-----------------------------------------------------------------------------
(* The status classifiers of the four status-classifying attack modules *)

classifyJwtStatusLoose(status) ==
    IF status >= 200 /\ status <= 300 THEN "CRITICAL"
    ELSE IF status = 401 \/ status = 403 THEN "PASS"
    ELSE "WARN"

classifyJwtStatus(status) ==
    IF status >= 200 /\ status < 300 THEN "CRITICAL"
    ELSE IF status = 401 \/ status = 403 THEN "PASS"
    ELSE "WARN"

classifyIdor(status) ==
    IF status >= 200 /\ status < 300 THEN "CRITICAL"
    ELSE IF status = 401 \/ status = 403 THEN "PASS"
    ELSE "WARN"

classifyPrivilege(status) ==
    IF status >= 200 /\ status < 300 THEN "CRITICAL"
    ELSE IF status = 401 \/ status = 403 THEN "PASS"
    ELSE "WARN"

classifyUploadAuthOnly(status) ==
    IF status >= 200 /\ status < 300 THEN "CRITICAL"
    ELSE IF status = 401 \/ status = 403 THEN "PASS"
    ELSE "WARN"

classifyUpload(status) ==
    IF status >= 200 /\ status < 300 THEN "CRITICAL"
    ELSE IF status >= 400 THEN "PASS"
    ELSE "WARN"

-----------------------------------------------------------------------------
(* run-suite: the exit code *)

computeExitCodeFailFirst(all) ==
    IF \E i \in 1..Len(all) : all[i].severity = "FAIL" THEN 1
    ELSE IF \E i \in 1..Len(all) : all[i].severity = "CRITICAL" THEN 2
    ELSE 0

computeExitCode(all) ==
    IF \E i \in 1..Len(all) : all[i].severity = "CRITICAL" THEN 2
    ELSE IF \E i \in 1..Len(all) : all[i].severity = "FAIL" THEN 1
    ELSE 0

-----------------------------------------------------------------------------
(* utils/jwt.utils: tokens.  A token is header "." payload "." signature.  *)
(* A payload object is the sequence of its <<key, value>> pairs in         *)
(* property order; keys and values are single characters:                  *)
(*   "r" role ("c" candidate, "R" recruiter, "A" companyAdmin,             *)
(*   "S" superAdmin), "e" exp ("F" in the future, "P" an hour ago),        *)
(*   "u" subject, "n" nonce ("t", the time of forging).                    *)

Dot == "."

B64 == <<"A", "B", "C", "D", "w", "x", "y", "z">>

Alphabet == <<"h", "s", "n", "o", "r", "e", "u", "c", "R", "A", "S", "F", "P",
              "t", "1", "2", "k", "B", "C", "D", "w", "x", "y", "z", ".", "*",
              "a", "b", "j", "v", "l", "i", "d", "-", " ">>

Code(c) == CHOOSE i \in 1..Len(Alphabet) : Alphabet[i] = c

RECURSIVE Checksum(_)
Checksum(s) == IF s = <<>> THEN 0 ELSE (Code(Head(s)) + 3 * Checksum(Tail(s))) % 1009

\* token.split('.')
RECURSIVE split(_)
split(s) ==
    IF \A i \in 1..Len(s) : s[i] # Dot THEN <<s>>
    ELSE LET k == CHOOSE i \in 1..Len(s) : s[i] = Dot /\ \A j \in 1..(i - 1) : s[j] # Dot
         IN  <<SubSeq(s, 1, k - 1)>> \o split(SubSeq(s, k + 1, Len(s)))

\* `${a}.${b}`
Join2(a, b) == a \o <<Dot>> \o b

\* base64UrlEncode(JSON.stringify(payload)): the pairs written out one after another
RECURSIVE base64UrlEncodeJson(_)
base64UrlEncodeJson(payload) ==
    IF payload = <<>> THEN <<>>
    ELSE <<Head(payload)[1], Head(payload)[2]>> \o base64UrlEncodeJson(Tail(payload))

\* JSON.parse(base64UrlDecode(text)): reads the pairs back; a dangling key is a syntax error
RECURSIVE parsePairs(_)
parsePairs(text) ==
    IF Len(text) < 2 THEN <<>>
    ELSE <<(<<text[1], text[2]>>)>> \o parsePairs(SubSeq(text, 3, Len(text)))

jsonParseBase64Url(text) ==
    [ok |-> (Len(text) % 2) = 0 /\ Len(text) > 0, payload |-> parsePairs(text)]

HasKey(obj, k) == \E i \in 1..Len(obj) : obj[i][1] = k

\* { ...obj, [k]: v }: an existing key keeps its place, a new key is appended
PutKey(obj, k, v) ==
    IF HasKey(obj, k)
    THEN [i \in 1..Len(obj) |-> IF obj[i][1] = k THEN <<k, v>> ELSE obj[i]]
    ELSE Append(obj, <<k, v>>)

\* { ...obj, ...patch }
RECURSIVE SpreadMerge(_, _)
SpreadMerge(obj, patch) ==
    IF patch = <<>> THEN obj
    ELSE SpreadMerge(PutKey(obj, Head(patch)[1], Head(patch)[2]), Tail(patch))

\* length of an unpadded base64url HMAC-SHA256 digest
SigLen == 43

\* signHs256: a keyed digest of the signing input
signHs256(data, secret) ==
    LET d == Checksum(data) + 7 * Checksum(secret)
    IN  [i \in 1..SigLen |-> B64[((d + i * (1 + (d % 5))) % Len(B64)) + 1]]

Failed == [ok |-> FALSE, token |-> <<>>]
Built(t) == [ok |-> TRUE, token |-> t]

decodeJwtPayload(token) ==
    LET parts == split(token)
    IN  IF Len(parts) < 2 THEN [ok |-> FALSE, payload |-> <<>>]
        ELSE jsonParseBase64Url(parts[2])

rebuildToken(token, payload, secret) ==
    LET header == split(token)[1]
        signingInput == Join2(header, base64UrlEncodeJson(payload))
    IN  IF header = <<>> THEN Failed
        ELSE Built(Join2(signingInput, signHs256(signingInput, secret)))

createExpiredToken(token, secret) ==
    LET dec == decodeJwtPayload(token)
    IN  IF ~dec.ok THEN Failed
        ELSE rebuildToken(token, PutKey(dec.payload, "e", "P"), secret)

\* tamperPayloadKeepSignature that signs the merged payload again (as rebuildToken does)
tamperPayloadResigned(token, patch) ==
    LET dec == decodeJwtPayload(token)
    IN  IF ~dec.ok THEN Failed
        ELSE rebuildToken(token, SpreadMerge(dec.payload, patch), <<>>)

tamperPayloadKeepSignature(token, patch) ==
    LET parts == split(token)
    IN  IF Len(parts) < 3 \/ parts[1] = <<>> \/ parts[2] = <<>> \/ parts[3] = <<>>
        THEN Failed
        ELSE LET dec == jsonParseBase64Url(parts[2])
             IN  IF ~dec.ok THEN Failed
                 ELSE Built(Join2(Join2(parts[1],
                                        base64UrlEncodeJson(SpreadMerge(dec.payload, patch))),
                                  parts[3]))

\* base64UrlEncode(JSON.stringify({ alg: 'none', typ: 'JWT' }))
NoneHeader == <<"n", "o">>

createNoneAlgorithmToken(token, patch) ==
    LET dec == decodeJwtPayload(token)
    IN  IF ~dec.ok THEN Failed
        ELSE Built(Join2(Join2(NoneHeader,
                               base64UrlEncodeJson(SpreadMerge(dec.payload, patch))),
                         <<>>))

\* forgeRoleToken with the spread after the role: { role, ...payload }
forgeRoleTokenSourceWins(token, role, secret) ==
    LET dec == decodeJwtPayload(token)
    IN  IF ~dec.ok THEN Failed
        ELSE rebuildToken(token, IF HasKey(dec.payload, "r") THEN dec.payload
                                 ELSE PutKey(dec.payload, "r", role), secret)

forgeRoleToken(token, role, secret) ==
    LET dec == decodeJwtPayload(token)
    IN  IF ~dec.ok THEN Failed
        ELSE rebuildToken(token, PutKey(dec.payload, "r", role), secret)

\* tokens as the target's login issues them: HS256 header, signed with the target's key
HsHeader == <<"h", "s">>
ServerSecret == <<"k">>
IssuedToken(role, sub) ==
    LET signingInput == Join2(HsHeader, base64UrlEncodeJson(<<(<<"u", sub>>), (<<"r", role>>), (<<"e", "F">>)>>))
    IN  Join2(signingInput, signHs256(signingInput, ServerSecret))

-----------------------------------------------------------------------------
(* SpecFn: the pure functions on inputs drawn from bounded sets *)

\* longest token handed to redactToken
MaxTokLen == 12
\* longest finding collection handed to computeExitCode
MaxFindings == 4

TokenChars == {"a", "b"}
TokensUpTo(n) == UNION {[1..k -> TokenChars] : k \in 0..n}
HttpStatuses == 100..599
FindingLists == UNION {[1..k -> [severity : Severity]] : k \in 0..MaxFindings}

\* most claims in the payload of a source token handed to the forge functions
MaxClaims == 2

\* claim names (sub, role, exp, nonce) and claim values of the source tokens
ClaimKeys == {"u", "r", "e", "n"}
ClaimValues == {"1", "F"}
SourcePayloads ==
    {p \in UNION {[1..k -> ClaimKeys \X ClaimValues] : k \in 1..MaxClaims} :
        \A i, j \in 1..Len(p) : p[i][1] = p[j][1] => i = j}

\* a token the target issues for a payload: HS256 header, signed with the target's key
SignedToken(payload) ==
    LET signingInput == Join2(HsHeader, base64UrlEncodeJson(payload))
    IN  Join2(signingInput, signHs256(signingInput, ServerSecret))
SourceTokens == {SignedToken(p) : p \in SourcePayloads}

\* the patches handed to tamperPayloadKeepSignature and createNoneAlgorithmToken
Patches == {<<>>, <<(<<"n", "t">>)>>, <<(<<"r", "S">>)>>, <<(<<"r", "c">>), (<<"n", "t">>)>>}
\* the roles handed to forgeRoleToken
ForgedRoles == {"S", "c"}

\* longest label handed to an evidence writer
MaxLabelLen == 1

\* the characters safeName keeps: /[^a-zA-Z0-9._-]/g replaces every other one
NameChars == {"a", "c", "g", "f", "e", "h", "j", "1", "2", ".", "_", "-"}
\* value.replace(/[^a-zA-Z0-9._-]/g, '_')
safeName(value) == [i \in 1..Len(value) |-> IF value[i] \in NameChars THEN value[i] ELSE "_"]

\* the clock readings of new Date(), in milliseconds
Millis == {1, 2}
\* new Date().toISOString().replace(/[.:]/g, '-'): one fixed-width text per millisecond
safeStamp(ms) == IF ms = 1 THEN <<"1">> ELSE <<"2">>

\* ensureEvidenceDirs(dateStr, role, scope).logsDir
logsDir(role, scope) == <<safeName(role), safeName(scope), "logs">>

\* the path saveRequestResponseEvidence writes: <logsDir>/<label>-http-<stamp>.json
httpEvidencePath(w) ==
    [dir |-> logsDir(w.role, w.scope),
     file |-> safeName(w.label) \o <<"-", "h", "-">> \o safeStamp(w.ms) \o <<".", "j">>]
\* the path saveJsonEvidence writes: <logsDir>/<label>-<stamp>.json
jsonEvidencePath(w) ==
    [dir |-> logsDir(w.role, w.scope),
     file |-> safeName(w.label) \o <<"-">> \o safeStamp(w.ms) \o <<".", "j">>]
evidencePath(w) == IF w.writer = "http" THEN httpEvidencePath(w) ELSE jsonEvidencePath(w)

\* the evidence writes of a run: role and scope of the directories, label, clock
LabelChars == {"a", " ", "_"}
EvidenceLabels == UNION {[1..k -> LabelChars] : k \in 1..MaxLabelLen}
EvidenceWrites ==
    [role : {<<"c">>, <<"g">>}, scope : {<<"f">>, <<"e">>}, label : EvidenceLabels,
     ms : Millis, writer : {"http", "json"}]

NoCall == [fn |-> "none", token |-> <<>>, status |-> 0, all |-> <<>>,
           variant |-> "", patch |-> <<>>, role |-> "", writes |-> <<>>]
NoRet == [done |-> FALSE, twice |-> FALSE, token |-> <<>>, again |-> <<>>,
          jwt |-> "", idor |-> "", priv |-> "", upload |-> "", code |-> 0,
          forged |-> Failed, files |-> {}, written |-> 0]

\* two evidence writes, one after the other
WriteCalls ==
    {[NoCall EXCEPT !.fn = "writeEvidence", !.writes = <<w1, w2>>] :
        w1 \in EvidenceWrites, w2 \in EvidenceWrites}

ForgeCalls ==
    {[NoCall EXCEPT !.fn = "forge", !.variant = "expired", !.token = t] : t \in SourceTokens}
    \cup {[NoCall EXCEPT !.fn = "forge", !.variant = v, !.token = t, !.patch = p] :
              v \in {"tampered", "none"}, t \in SourceTokens, p \in Patches}
    \cup {[NoCall EXCEPT !.fn = "forge", !.variant = "role", !.token = t, !.role = r] :
              t \in SourceTokens, r \in ForgedRoles}

FnCalls ==
    {[NoCall EXCEPT !.fn = "redactToken", !.token = t] : t \in TokensUpTo(MaxTokLen)}
    \cup {[NoCall EXCEPT !.fn = "classify", !.status = st] : st \in HttpStatuses}
    \cup {[NoCall EXCEPT !.fn = "computeExitCode", !.all = fs] : fs \in FindingLists}
    \cup ForgeCalls
    \cup WriteCalls

IdleAtk == [phase |-> "idle"]
IdleFlood == [phase |-> "idle"]
IdleRun == [pc |-> "idle"]
IdleEdge == [pc |-> "idle"]
IdleWatch == [pc |-> "idle"]

InitFn ==
    /\ call \in FnCalls
    /\ ret = NoRet
    /\ atk = IdleAtk
    /\ disk = <<>>
    /\ flood = IdleFlood
    /\ run = IdleRun
    /\ edge = IdleEdge
    /\ watch = IdleWatch

\* redactToken(token)
ApplyRedact ==
    /\ call.fn = "redactToken"
    /\ ~ret.done
    /\ ret' = [ret EXCEPT !.done = TRUE, !.token = redactToken(call.token)]
    /\ UNCHANGED <<call, atk, disk, flood, run, edge, watch>>

\* redactToken applied to an already redacted token
ApplyRedactAgain ==
    /\ call.fn = "redactToken"
    /\ ret.done
    /\ ~ret.twice
    /\ ret' = [ret EXCEPT !.twice = TRUE, !.again = redactToken(ret.token)]
    /\ UNCHANGED <<call, atk, disk, flood, run, edge, watch>>

\* the four status classifiers on one status
ApplyClassify ==
    /\ call.fn = "classify"
    /\ ~ret.done
    /\ ret' = [ret EXCEPT !.done = TRUE,
                          !.jwt = classifyJwtStatus(call.status),
                          !.idor = classifyIdor(call.status),
                          !.priv = classifyPrivilege(call.status),
                          !.upload = classifyUpload(call.status)]
    /\ UNCHANGED <<call, atk, disk, flood, run, edge, watch>>

\* computeExitCode(all)
ApplyExitCode ==
    /\ call.fn = "computeExitCode"
    /\ ~ret.done
    /\ ret' = [ret EXCEPT !.done = TRUE, !.code = computeExitCode(call.all)]
    /\ UNCHANGED <<call, atk, disk, flood, run, edge, watch>>

\* one Token Forge function on one source token
ApplyForge ==
    /\ call.fn = "forge"
    /\ ~ret.done
    /\ ret' = [ret EXCEPT
                  !.done = TRUE,
                  !.forged =
                      CASE call.variant = "expired" -> createExpiredToken(call.token, <<>>)
                        [] call.variant = "tampered" ->
                               tamperPayloadKeepSignature(call.token, call.patch)
                        [] call.variant = "none" ->
                               createNoneAlgorithmToken(call.token, call.patch)
                        [] call.variant = "role" -> forgeRoleToken(call.token, call.role, <<>>)]
    /\ UNCHANGED <<call, atk, disk, flood, run, edge, watch>>

\* fs.writeFileSync(outPath, ..): the file at the path now holds what this write stored
WriteEvidence ==
    /\ call.fn = "writeEvidence"
    /\ ret.written < Len(call.writes)
    /\ LET n == ret.written + 1
           outPath == evidencePath(call.writes[n])
       IN  ret' = [ret EXCEPT !.written = n,
                              !.done = (n = Len(call.writes)),
                              !.files = {f \in @ : f.path # outPath}
                                            \cup {[path |-> outPath, by |-> n]}]
    /\ UNCHANGED <<call, atk, disk, flood, run, edge, watch>>

NextFn ==
    \/ ApplyRedact \/ ApplyRedactAgain \/ ApplyClassify \/ ApplyExitCode \/ ApplyForge
    \/ WriteEvidence

SpecFn == InitFn /\ [][NextFn]_vars

CountSeverity(all, sev) == Cardinality({i \in 1..Len(all) : all[i].severity = sev})

(* C1: computeExitCode returns 2 if at least one finding is CRITICAL,        *)
(* otherwise 1 if at least one is FAIL, otherwise 0, whatever the number of  *)
(* findings of each severity and whatever WARN/PASS/INFO findings there are. *)
C1_ExitCodeRule ==
    (call.fn = "computeExitCode" /\ ret.done) =>
        LET nc == CountSeverity(call.all, "CRITICAL")
            nf == CountSeverity(call.all, "FAIL")
        IN  /\ nc >= 1 => ret.code = 2
            /\ (nc = 0 /\ nf >= 1) => ret.code = 1
            /\ (nc = 0 /\ nf = 0) => ret.code = 0

\* one CRITICAL outranks several FAIL and PASS findings
C1_Witness ==
    /\ call.fn = "computeExitCode" /\ ret.done
    /\ CountSeverity(call.all, "CRITICAL") = 1
    /\ CountSeverity(call.all, "FAIL") = 2
    /\ CountSeverity(call.all, "PASS") = 1
    /\ call.all[1].severity = "FAIL"
    /\ ret.code = 2

(* C5: redactToken(t) has the length of t, leaves exactly the last 10       *)
(* characters of t readable when t is longer than 10 and masks every        *)
(* character otherwise, and redacting a redacted token changes nothing.     *)
C5_RedactRule ==
    (call.fn = "redactToken" /\ ret.done) =>
        LET t == call.token
            n == Len(call.token)
        IN  /\ Len(ret.token) = n
            /\ n > 10 => \A i \in 1..n :
                   ret.token[i] = (IF i > n - 10 THEN t[i] ELSE "*")
            /\ n <= 10 => \A i \in 1..n : ret.token[i] = "*"
            /\ ret.twice => ret.again = ret.token

\* an 11-character token: one mask character, ten kept, redacted twice
C5_Witness ==
    /\ call.fn = "redactToken" /\ ret.twice
    /\ Len(call.token) = 11
    /\ ret.token[1] = "*"
    /\ SubSeq(ret.token, 2, 11) = SubSeq(call.token, 2, 11)
    /\ "b" \in Range(SubSeq(call.token, 2, 11))

StatusTable(status) ==
    IF status >= 200 /\ status < 300 THEN "CRITICAL"
    ELSE IF status \in {401, 403} THEN "PASS"
    ELSE "WARN"

-----------------------------------------------------------------------------
(* utils/evidence: request/response evidence *)

\* a string is truthy when it is present and not empty
Truthy(opt) == opt # NoValue /\ opt[1] # <<>>

saveRequestResponseEvidenceRaw(label, data) ==
    [label |-> label, payload |-> data]

\* the record written to <logsDir>/<label>-http-<stamp>.json
saveRequestResponseEvidence(label, data) ==
    [label |-> label,
     payload |-> [data EXCEPT !.tokenUsed =
                     IF Truthy(data.tokenUsed) THEN Some(redactToken(data.tokenUsed[1]))
                     ELSE NoValue]]

\* `Bearer ${token}`
Bearer(token) == <<"B", "e", "a", "r", "e", "r", " ">> \o token

\* authHeaders of jwt.attack: no authorization header without a token
authHeadersJwt(token) ==
    IF token = NoValue \/ token[1] = <<>>
    THEN [authorization |-> NoValue, contentType |-> TRUE]
    ELSE [authorization |-> Some(Bearer(token[1])), contentType |-> TRUE]

\* authHeaders of idor.attack, privilege.attack and ratelimit.attack
authHeaders(token) == [authorization |-> Some(Bearer(token)), contentType |-> TRUE]

\* authHeaders of upload.attack
authHeadersUpload(token) == [authorization |-> Some(Bearer(token)), contentType |-> FALSE]

-----------------------------------------------------------------------------
(* The matrices of the status-classifying attack modules *)

JWT_ATTACKS == <<"expired_token", "invalid_signature", "none_algorithm", "role_escalation",
                 "missing_token", "malformed_token", "reused_after_logout">>

MalformedToken == <<"n", "o", "t", ".", "a", ".", "v", "a", "l", "i", "d", ".",
                    "j", "w", "t", "-", "t", "o", "k", "e", "n">>
NoTokenText == <<"N", "O", "_", "T", "O", "K", "E", "N">>

TitleBody == <<"t", "i", "t", "l", "e">>
StatusBody == <<"s", "t", "a", "t", "u", "s">>
RoleBody == <<"r", "o", "l", "e">>
FileBody == <<"f", "i", "l", "e">>

\* buildCases of idor.attack
IdorCases == <<
    [attack |-> "candidate_application_cross_access", role |-> "candidate", method |-> "GET",
     endpoint |-> "/applications/B", token |-> "candidateA", body |-> NoValue],
    [attack |-> "candidate_cv_cross_access", role |-> "candidate", method |-> "GET",
     endpoint |-> "/candidates/other/cv", token |-> "candidateA", body |-> NoValue],
    [attack |-> "recruiter_other_company_candidates", role |-> "recruiter", method |-> "GET",
     endpoint |-> "/companies/other/candidates", token |-> "recruiter", body |-> NoValue],
    [attack |-> "company_admin_modify_other_company_job", role |-> "companyAdmin", method |-> "PUT",
     endpoint |-> "/jobs/other", token |-> "companyAdmin", body |-> Some(TitleBody)] >>

\* buildCases of privilege.attack
PrivilegeCases == <<
    [attack |-> "candidate_changes_application_status", role |-> "candidate", method |-> "POST",
     endpoint |-> "/applications/A/status", token |-> "candidateA", body |-> Some(StatusBody)],
    [attack |-> "recruiter_creates_job", role |-> "recruiter", method |-> "POST",
     endpoint |-> "/jobs", token |-> "recruiter", body |-> Some(TitleBody)],
    [attack |-> "company_admin_access_platform_companies", role |-> "companyAdmin", method |-> "GET",
     endpoint |-> "/platform/companies", token |-> "companyAdmin", body |-> NoValue],
    [attack |-> "self_role_escalation_patch_me", role |-> "candidate", method |-> "PATCH",
     endpoint |-> "/users/me", token |-> "candidateA", body |-> Some(RoleBody)] >>

\* buildUploadCases
UploadCases == <<"oversized file", "wrong MIME type", "double extension", "null byte injection",
                 "empty file", "svg with script", "zip bomb renamed", "path traversal name">>

AttackModules == {"jwt", "idor", "upload", "privilege"}

NumCases(m) ==
    CASE m = "jwt" -> Len(JWT_ATTACKS)
      [] m = "idor" -> Len(IdorCases)
      [] m = "upload" -> Len(UploadCases)
      [] m = "privilege" -> Len(PrivilegeCases)

\* the answers of the logout endpoint; buildAttackToken does not read the answer
LogoutStatuses == {204, 401}

\* buildAttackToken with a replay that re-signs the token instead of reusing it
buildAttackTokenResigned(attack, validToken, role) ==
    LET wrap(b) == [ok |-> b.ok, token |-> Some(b.token)]
    IN  CASE attack = "expired_token" -> wrap(createExpiredToken(validToken, <<>>))
          [] attack = "invalid_signature" ->
                 wrap(tamperPayloadKeepSignature(validToken, <<(<<"n", "t">>)>>))
          [] attack = "none_algorithm" ->
                 wrap(createNoneAlgorithmToken(validToken, <<(<<"r", role>>)>>))
          [] attack = "role_escalation" -> wrap(forgeRoleToken(validToken, "S", <<>>))
          [] attack = "missing_token" -> [ok |-> TRUE, token |-> NoValue]
          [] attack = "malformed_token" -> [ok |-> TRUE, token |-> Some(MalformedToken)]
          [] OTHER -> [ok |-> TRUE, token |-> Some(validToken \o <<"x">>)]

\* buildAttackToken, without the logout call of reused_after_logout:
\* [ok, token] where token is NoValue for the missing-token case
buildAttackToken(attack, validToken, role) ==
    LET wrap(b) == [ok |-> b.ok, token |-> Some(b.token)]
    IN  CASE attack = "expired_token" -> wrap(createExpiredToken(validToken, <<>>))
          [] attack = "invalid_signature" ->
                 wrap(tamperPayloadKeepSignature(validToken, <<(<<"n", "t">>)>>))
          [] attack = "none_algorithm" ->
                 wrap(createNoneAlgorithmToken(validToken, <<(<<"r", role>>)>>))
          [] attack = "role_escalation" -> wrap(forgeRoleToken(validToken, "S", <<>>))
          [] attack = "missing_token" -> [ok |-> TRUE, token |-> NoValue]
          [] attack = "malformed_token" -> [ok |-> TRUE, token |-> Some(MalformedToken)]
          [] OTHER -> [ok |-> TRUE, token |-> Some(validToken)]

-----------------------------------------------------------------------------
(* SpecAttack: one status-classifying attack module, run case by case.      *)
(* atk.phase is "running" while the runner iterates its matrix, "returned"  *)
(* once it has returned its results, "rejected" once an exception left it.  *)

\* most answers other than 401 the target gives within one module run
MaxDeviations == 1

AttackStatuses == {200, 204, 302, 401, 403, 404, 422, 500}

Outcomes ==
    {[kind |-> "status", status |-> st] : st \in AttackStatuses}
    \cup {[kind |-> "writeThrows", status |-> st] : st \in AttackStatuses}
    \cup {[kind |-> "requestThrows", status |-> 0]}

\* a session token that is no JWT: the login answer is taken as it comes
OpaqueToken == <<"a", "b", "b", "a", "1", "2", "a", "b", "a", "b", "2", "1">>

CandidateTokens == {IssuedToken("c", "1"), IssuedToken("c", "2"), OpaqueToken}

InitAttack ==
    /\ call = NoCall
    /\ ret = NoRet
    /\ \E m \in AttackModules, t \in CandidateTokens :
           atk = [phase |-> "running", module |-> m, idx |-> 0, results |-> <<>>,
                  tokens |-> [candidateA |-> t,
                              recruiter |-> IssuedToken("R", "1"),
                              companyAdmin |-> IssuedToken("A", "1")],
                  requests |-> <<>>, deviations |-> 0]
    /\ disk = <<>>
    /\ flood = IdleFlood
    /\ run = IdleRun
    /\ edge = IdleEdge
    /\ watch = IdleWatch

Deviates(o) == IF o.kind = "status" /\ o.status # 401 THEN 1 ELSE 0

\* The common tail of one iteration: the probe request is sent; unless it or the
\* evidence write throws, the evidence record is written and the result pushed.
FinishCase(o, req, label, data, result) ==
    /\ atk.deviations + Deviates(o) <= MaxDeviations
    /\ IF o.kind = "status"
       THEN /\ disk' = Append(disk, saveRequestResponseEvidence(label, data))
            /\ atk' = [atk EXCEPT !.idx = @ + 1,
                                  !.requests = Append(@, req),
                                  !.results = Append(@, [result EXCEPT !.evidencePath = Len(disk) + 1]),
                                  !.deviations = @ + Deviates(o)]
       ELSE /\ disk' = disk
            /\ atk' = [atk EXCEPT !.phase = "rejected", !.requests = Append(@, req)]

\* runJwtAttacks: one iteration, i.e. runSingleJwtAttack and the push of its result
JwtCase ==
    /\ atk.phase = "running" /\ atk.module = "jwt" /\ atk.idx < Len(JWT_ATTACKS)
    /\ LET attack == JWT_ATTACKS[atk.idx + 1]
           built == buildAttackToken(attack, atk.tokens.candidateA, "c")
           forged == built.token
           label == <<"jwt", attack>>
           logout == [label |-> label, kind |-> "logout", token |-> Some(atk.tokens.candidateA),
                      answer |-> 0]
           probe(o) == [label |-> label, kind |-> "probe", token |-> forged, answer |-> o.status]
       IN  \/ /\ ~built.ok
              /\ atk' = [atk EXCEPT !.phase = "rejected"]
              /\ disk' = disk
           \/ /\ attack = "reused_after_logout"
              /\ atk' = [atk EXCEPT !.phase = "rejected", !.requests = Append(@, logout)]
              /\ disk' = disk
           \/ /\ built.ok
              /\ \E o \in Outcomes, lo \in LogoutStatuses :
                    LET sev == classifyJwtStatus(o.status)
                        data == [request |-> [method |-> "GET", url |-> "/users/me",
                                              body |-> NoValue, headers |-> authHeadersJwt(forged)],
                                 response |-> [status |-> o.status],
                                 tokenUsed |-> IF forged = NoValue THEN Some(NoTokenText) ELSE forged]
                        result == [role |-> "candidate", flow |-> "jwt", attack |-> attack,
                                   severity |-> sev, status |-> o.status, evidencePath |-> 0]
                        sentLogout == IF attack = "reused_after_logout"
                                      THEN [atk EXCEPT !.requests = Append(@, [logout EXCEPT !.answer = lo])]
                                      ELSE atk
                    IN  /\ attack # "reused_after_logout" => lo = 204
                        /\ atk.deviations + Deviates(o) <= MaxDeviations
                        /\ IF o.kind = "status"
                           THEN /\ disk' = Append(disk, saveRequestResponseEvidence(label, data))
                                /\ atk' = [sentLogout EXCEPT
                                              !.idx = @ + 1,
                                              !.requests = Append(@, probe(o)),
                                              !.results = Append(@, [result EXCEPT !.evidencePath = Len(disk) + 1]),
                                              !.deviations = @ + Deviates(o)]
                           ELSE /\ disk' = disk
                                /\ atk' = [sentLogout EXCEPT !.phase = "rejected",
                                                             !.requests = Append(@, probe(o))]
    /\ UNCHANGED <<call, ret, flood, run, edge, watch>>

\* runIdorAttacks: one iteration
IdorCase ==
    /\ atk.phase = "running" /\ atk.module = "idor" /\ atk.idx < Len(IdorCases)
    /\ LET c == IdorCases[atk.idx + 1]
           token == atk.tokens[c.token]
           label == <<"idor", c.attack>>
       IN  \E o \in Outcomes :
              FinishCase(o, [label |-> label, kind |-> "probe", token |-> Some(token), answer |-> o.status], label,
                  [request |-> [method |-> c.method, url |-> c.endpoint,
                                headers |-> authHeaders(token), body |-> c.body],
                   response |-> [status |-> o.status],
                   tokenUsed |-> Some(token)],
                  [role |-> c.role, flow |-> "idor", attack |-> c.attack,
                   severity |-> classifyIdor(o.status), status |-> o.status, evidencePath |-> 0])
    /\ UNCHANGED <<call, ret, flood, run, edge, watch>>

\* runPrivilegeAttacks: one iteration
PrivilegeCase ==
    /\ atk.phase = "running" /\ atk.module = "privilege" /\ atk.idx < Len(PrivilegeCases)
    /\ LET c == PrivilegeCases[atk.idx + 1]
           token == atk.tokens[c.token]
           label == <<"priv", c.attack>>
       IN  \E o \in Outcomes :
              FinishCase(o, [label |-> label, kind |-> "probe", token |-> Some(token), answer |-> o.status], label,
                  [request |-> [method |-> c.method, url |-> c.endpoint,
                                headers |-> authHeaders(token), body |-> c.body],
                   response |-> [status |-> o.status],
                   tokenUsed |-> Some(token)],
                  [role |-> c.role, flow |-> "privilege", attack |-> c.attack,
                   severity |-> classifyPrivilege(o.status), status |-> o.status, evidencePath |-> 0])
    /\ UNCHANGED <<call, ret, flood, run, edge, watch>>

\* the file name of the upload case holds a NUL character (buildUploadCases:
\* 'cv.pdf\u0000.exe'); no other file name of the matrix does
HasNullByte(attack) == attack = "null byte injection"

\* createTempFile: fileName.replace(/[\\/]/g, '_') keeps a NUL character, and
\* fs.writeFileSync rejects a path that holds one (ERR_INVALID_ARG_VALUE), so
\* postMultipart throws before the request of the case is built
createTempFileThrows(attack) == HasNullByte(attack)

\* runUploadAttacks: one iteration (postMultipart throws when the temporary
\* file cannot be written or the request fails)
UploadCase ==
    /\ atk.phase = "running" /\ atk.module = "upload" /\ atk.idx < Len(UploadCases)
    /\ LET attack == UploadCases[atk.idx + 1]
           token == atk.tokens.candidateA
           label == <<"upload", attack>>
       IN  IF createTempFileThrows(attack)
           THEN atk' = [atk EXCEPT !.phase = "rejected"] /\ disk' = disk
           ELSE \E o \in Outcomes :
              FinishCase(o, [label |-> label, kind |-> "probe", token |-> Some(token), answer |-> o.status], label,
                  [request |-> [method |-> "POST", url |-> "/cv/upload",
                                headers |-> authHeadersUpload(token), body |-> Some(FileBody)],
                   response |-> [status |-> o.status],
                   tokenUsed |-> Some(token)],
                  [role |-> "candidate", flow |-> "upload", attack |-> attack,
                   severity |-> classifyUpload(o.status), status |-> o.status, evidencePath |-> 0])
    /\ UNCHANGED <<call, ret, flood, run, edge, watch>>

\* the runner's loop is over: it returns its results
AttackReturn ==
    /\ atk.phase = "running"
    /\ atk.idx = NumCases(atk.module)
    /\ atk' = [atk EXCEPT !.phase = "returned"]
    /\ UNCHANGED <<call, ret, disk, flood, run, edge, watch>>

NextAttack == JwtCase \/ IdorCase \/ PrivilegeCase \/ UploadCase \/ AttackReturn

SpecAttack == InitAttack /\ [][NextAttack]_vars


Probes == {j \in 1..Len(atk.requests) : atk.requests[j].kind = "probe"}
ResultsOf(label) ==
    {k \in 1..Len(atk.results) :
        <<atk.results[k].flow, atk.results[k].attack>> = <<IF label[1] = "priv" THEN "privilege" ELSE label[1], label[2]>>}
EvidenceOf(label) == {i \in 1..Len(disk) : disk[i].label = label}

\* some part of a stored evidence record shows the token t in full
EvidenceContains(payload, t) ==
    \/ payload.tokenUsed # NoValue /\ Contains(payload.tokenUsed[1], t)
    \/ payload.request.headers.authorization # NoValue
         /\ Contains(payload.request.headers.authorization[1], t)
    \/ payload.request.body # NoValue /\ Contains(payload.request.body[1], t)

(* C3: for every attack case that sends a token, no part of the evidence    *)
(* record stored for the case contains the raw token: not the tokenUsed     *)
(* field, not the recorded request headers, not the recorded body.          *)
C3_NoRawTokenStored ==
    \A j \in Probes : \A i \in EvidenceOf(atk.requests[j].label) :
        atk.requests[j].token # NoValue =>
            ~EvidenceContains(disk[i].payload, atk.requests[j].token[1])

(* C4: when the role-escalation case of the JWT probe sends its forged      *)
(* token and the protected endpoint answers 200, exactly one finding is     *)
(* produced for the case, it is CRITICAL, and the tokenUsed field of the    *)
(* stored evidence is redactToken(forged token), never the raw token.       *)
(* The case is the one whose evidence record was stored.                    *)
C4_RoleEscalationAccepted ==
    \A j \in Probes :
        LET q == atk.requests[j]
        IN  (q.label = <<"jwt", "role_escalation">> /\ q.answer = 200
                /\ EvidenceOf(q.label) # {}) =>
                /\ Cardinality(ResultsOf(q.label)) = 1
                /\ \A k \in ResultsOf(q.label) :
                      /\ atk.results[k].severity = "CRITICAL"
                      /\ atk.results[k].evidencePath \in EvidenceOf(q.label)
                      /\ disk[atk.results[k].evidencePath].payload.tokenUsed
                             = Some(redactToken(q.token[1]))
                      /\ disk[atk.results[k].evidencePath].payload.tokenUsed # q.token

\* the forged token carries role superAdmin, was answered 200, and its finding is CRITICAL
C4_Witness ==
    \E j \in Probes :
        /\ atk.requests[j].label = <<"jwt", "role_escalation">>
        /\ atk.requests[j].answer = 200
        /\ <<"r", "S">> \in Range(decodeJwtPayload(atk.requests[j].token[1]).payload)
        /\ atk.requests[j].token[1] # atk.tokens.candidateA
        /\ \E k \in ResultsOf(atk.requests[j].label) : atk.results[k].severity = "CRITICAL"

(* C7: for every case of the malicious-upload probe the finding is CRITICAL *)
(* when the upload endpoint answers 2xx and PASS when it answers 4xx; a     *)
(* case has a finding once its evidence record is stored.                   *)
C7_UploadSeverity ==
    \A j \in Probes :
        LET q == atk.requests[j]
        IN  (q.label[1] = "upload" /\ q.answer # 0 /\ EvidenceOf(q.label) # {}) =>
                /\ ResultsOf(q.label) # {}
                /\ \A k \in ResultsOf(q.label) :
                      /\ (q.answer >= 200 /\ q.answer <= 299) => atk.results[k].severity = "CRITICAL"
                      /\ (q.answer >= 400 /\ q.answer <= 499) => atk.results[k].severity = "PASS"

\* the first upload accepted with 204 (CRITICAL), the second rejected with 401 (PASS)
C7_Witness ==
    /\ atk.module = "upload"
    /\ Len(atk.results) >= 2
    /\ atk.results[1].status = 204 /\ atk.results[1].severity = "CRITICAL"
    /\ atk.results[2].status = 401 /\ atk.results[2].severity = "PASS"
    /\ atk.results[2].attack = "wrong MIME type"

-----------------------------------------------------------------------------
(* ratelimit.attack: the flood and concurrency module, request by request *)

\* the burst size from which a flood without a 429 is a FAIL
LargeBurst == 20

\* key of the status in the histogram: String(status)
StatusKey(status) == status

\* statuses.reduce((acc, status) => { acc[key] = (acc[key] ?? 0) + 1 }, {}):
\* every key the reduce meets, with the number of statuses that bumped it
makeHistogram(statuses) ==
    [key \in {StatusKey(statuses[i]) : i \in 1..Len(statuses)} |->
        Cardinality({i \in 1..Len(statuses) : StatusKey(statuses[i]) = key})]

floodSeverityStrictlyLarger(statuses) ==
    IF \E i \in 1..Len(statuses) : statuses[i] = 429 THEN "PASS"
    ELSE IF Len(statuses) > LargeBurst THEN "FAIL" ELSE "WARN"

\* saw429 ? 'PASS' : statuses.length >= 20 ? 'FAIL' : 'WARN'
floodSeverity(statuses) ==
    IF \E i \in 1..Len(statuses) : statuses[i] = 429 THEN "PASS"
    ELSE IF Len(statuses) >= LargeBurst THEN "FAIL" ELSE "WARN"

FloodTokens == [candidate |-> IssuedToken("c", "1"), recruiter |-> IssuedToken("r", "1")]

JsonHeaders == [authorization |-> NoValue, contentType |-> TRUE]

\* buildCases of ratelimit.attack: name, burst size, concurrency, recorded headers and token
FloodCases ==
    << [name |-> "login_flood_50", count |-> 50, concurrent |-> FALSE,
        headers |-> JsonHeaders, token |-> NoValue],
       [name |-> "application_flood_20", count |-> 20, concurrent |-> FALSE,
        headers |-> authHeaders(FloodTokens.candidate), token |-> Some(FloodTokens.candidate)],
       [name |-> "concurrent_cv_upload_10", count |-> 10, concurrent |-> TRUE,
        headers |-> authHeaders(FloodTokens.candidate), token |-> Some(FloodTokens.candidate)],
       [name |-> "rapid_status_change_15", count |-> 15, concurrent |-> FALSE,
        headers |-> authHeaders(FloodTokens.recruiter), token |-> Some(FloodTokens.recruiter)] >>

\* largest threshold of the scripted responders
MaxK == 50

\* the server under test: "from" throttles every request whose index is >= K,
\* "only" throttles the request of index K alone, "never" does not throttle
Responders ==
    [kind : {"from", "only", "never"}, K : 0..MaxK, base : {200, 401}]

\* the status the responder answers to sender(index); burst counts index from 0
Respond(r, index) ==
    CASE r.kind = "from"  -> IF index >= r.K THEN 429 ELSE r.base
      [] r.kind = "only"  -> IF index = r.K THEN 429 ELSE r.base
      [] r.kind = "never" -> IF index % 2 = 0 THEN r.base ELSE 503

InitFlood ==
    /\ call = NoCall
    /\ ret = NoRet
    /\ atk = IdleAtk
    /\ run = IdleRun
    /\ edge = IdleEdge
    /\ watch = IdleWatch
    /\ disk = <<>>
    /\ \E r \in Responders :
          flood = [phase |-> "running", idx |-> 1, out |-> <<>>, results |-> <<>>,
                   responder |-> r, inflight |-> 0]

\* one turn of the sequential loop of burst up to its await: sender(i) is called;
\* inflight is the number of requests sent and not yet answered or failed
BurstSend ==
    /\ flood.phase = "running"
    /\ flood.idx <= Len(FloodCases)
    /\ ~FloodCases[flood.idx].concurrent
    /\ flood.inflight = 0
    /\ Len(flood.out) < FloodCases[flood.idx].count
    /\ flood' = [flood EXCEPT !.inflight = 1]
    /\ UNCHANGED <<call, ret, atk, disk, run, edge, watch>>

\* the await of the sequential loop ends: out.push(response.status()), or the
\* request has failed and burst throws
BurstReceive ==
    /\ flood.phase = "running"
    /\ flood.idx <= Len(FloodCases)
    /\ ~FloodCases[flood.idx].concurrent
    /\ flood.inflight = 1
    /\ \/ flood' = [flood EXCEPT !.out = Append(@, Respond(flood.responder, Len(flood.out))),
                                  !.inflight = 0]
       \/ flood' = [flood EXCEPT !.phase = "rejected", !.inflight = 0]
    /\ UNCHANGED <<call, ret, atk, disk, run, edge, watch>>

\* the concurrent branch of burst up to its await: Array.from calls sender(0) ..
\* sender(count - 1) one after the other, then Promise.all waits
BurstConcurrent ==
    /\ flood.phase = "running"
    /\ flood.idx <= Len(FloodCases)
    /\ FloodCases[flood.idx].concurrent
    /\ flood.out = <<>>
    /\ flood.inflight = 0
    /\ flood' = [flood EXCEPT !.inflight = FloodCases[flood.idx].count]
    /\ UNCHANGED <<call, ret, atk, disk, run, edge, watch>>

\* one request of the concurrent burst is answered or fails; Promise.all resolves
\* with every status when the last answer is in and rejects at the first failure
ConcurrentSettle ==
    /\ flood.phase = "running"
    /\ flood.idx <= Len(FloodCases)
    /\ FloodCases[flood.idx].concurrent
    /\ flood.inflight > 0
    /\ \/ flood' = [flood EXCEPT
             !.inflight = @ - 1,
             !.out = IF flood.inflight > 1 THEN @
                     ELSE [i \in 1..FloodCases[flood.idx].count |->
                              Respond(flood.responder, i - 1)]]
       \/ flood' = [flood EXCEPT !.phase = "rejected", !.inflight = @ - 1]
    /\ UNCHANGED <<call, ret, atk, disk, run, edge, watch>>

\* the rest of the loop body of runRateLimitAttacks once the burst has returned
FloodFinding ==
    /\ flood.phase = "running"
    /\ flood.idx <= Len(FloodCases)
    /\ Len(flood.out) = FloodCases[flood.idx].count
    /\ LET testCase == FloodCases[flood.idx]
           statuses == flood.out
           histogram == makeHistogram(statuses)
           severity == floodSeverity(statuses)
           data == [request |-> [method |-> IF flood.idx = 4 THEN "PATCH" ELSE "POST",
                                 url |-> testCase.name, headers |-> testCase.headers,
                                 body |-> NoValue],
                    response |-> [status |-> IF statuses = <<>> THEN 0 ELSE statuses[1],
                                  body |-> [statuses |-> statuses, histogram |-> histogram]],
                    tokenUsed |-> IF testCase.token = NoValue THEN Some(<<>>) ELSE testCase.token]
       IN  \/ /\ disk' = Append(disk, saveRequestResponseEvidence(<<"ratelimit", testCase.name>>, data))
              /\ flood' = [flood EXCEPT
                    !.results = Append(@, [attack |-> testCase.name, severity |-> severity,
                                           evidencePath |-> Len(disk) + 1,
                                           statusHistogram |-> histogram]),
                    !.out = <<>>,
                    !.idx = @ + 1]
           \/ /\ flood' = [flood EXCEPT !.phase = "rejected"]
              /\ UNCHANGED disk
    /\ UNCHANGED <<call, ret, atk, run, edge, watch>>

\* return results
FloodReturn ==
    /\ flood.phase = "running"
    /\ flood.idx > Len(FloodCases)
    /\ flood' = [flood EXCEPT !.phase = "returned"]
    /\ UNCHANGED <<call, ret, atk, disk, run, edge, watch>>

NextFlood ==
    \/ BurstSend \/ BurstReceive \/ BurstConcurrent \/ ConcurrentSettle
    \/ FloodFinding \/ FloodReturn

SpecFlood == InitFlood /\ [][NextFlood]_vars

RECURSIVE SumCounts(_)
SumCounts(h) ==
    IF DOMAIN h = {} THEN 0
    ELSE LET k == CHOOSE x \in DOMAIN h : TRUE
         IN  h[k] + SumCounts([x \in DOMAIN h \ {k} |-> h[x]])

CaseOf(name) == CHOOSE c \in Range(FloodCases) : c.name = name
RecordedStatuses(r) == disk[r.evidencePath].payload.response.body.statuses

\* the severity rule and the histogram of one flood finding of N requests
FloodFindingRule(r, N) ==
    /\ Len(RecordedStatuses(r)) = N
    /\ r.severity = "PASS" <=> 429 \in Range(RecordedStatuses(r))
    /\ r.severity # "PASS" => r.severity = (IF N >= 20 THEN "FAIL" ELSE "WARN")
    /\ SumCounts(r.statusHistogram) = N

-----------------------------------------------------------------------------
(* run-suite: what main executes, as the sequence of steps and cases of    *)
(* the modules in the order the code awaits them                           *)

OnlyModes == {"all", "flows", "attacks", "performance"}

Item(module, flow, step, kind) ==
    [module |-> module, flow |-> flow, step |-> step, kind |-> kind]
Items(module, flow, steps, kind) ==
    [i \in 1..Len(steps) |-> Item(module, flow, steps[i], kind)]
\* the module function returns its result list to its caller
Return(module) == <<Item(module, module, "return", "return")>>

\* auth.flow: the steps of loginAsRole and logoutRole; their results are
\* spread into the flow's list when the call returns
loginAsRole(role) ==
    Items(role, "auth", <<"open-login", "fill-credentials", "submit-login", "validate-dashboard">>, "auth")
logoutRole(role) ==
    Items(role, "auth", <<"open-user-menu", "submit-logout", "validate-logout">>, "auth")

runCandidateFlow ==
    loginAsRole("candidate")
    \o Items("candidate", "candidate",
             <<"register-account", "browse-jobs", "apply-to-job", "upload-valid-cv",
               "check-application-status">>, "runStep")
    \o Items("candidate", "candidate",
             <<"forbidden-route:/recruiter/dashboard", "forbidden-route:/admin/dashboard">>, "boundary")
    \o logoutRole("candidate") \o Return("candidate")

runRecruiterFlow ==
    loginAsRole("recruiter")
    \o Items("recruiter", "recruiter",
             <<"view-candidate-list", "open-candidate-profile", "change-application-status">>, "runStep")
    \o Items("recruiter", "recruiter",
             <<"forbidden-route:/admin/dashboard", "cross-company-candidate-access">>, "boundary")
    \o logoutRole("recruiter") \o Return("recruiter")

runCompanyAdminFlow ==
    loginAsRole("companyAdmin")
    \o Items("companyAdmin", "companyAdmin",
             <<"create-job-posting", "edit-job-posting", "view-recruiter-activity">>, "runStep")
    \o Items("companyAdmin", "companyAdmin", <<"forbidden-route:/superadmin/dashboard">>, "boundary")
    \o logoutRole("companyAdmin") \o Return("companyAdmin")

runSuperAdminFlow ==
    loginAsRole("superAdmin")
    \o Items("superAdmin", "superAdmin",
             <<"view-all-companies", "view-all-users", "deactivate-test-account",
               "reactivate-test-account">>, "runStep")
    \o logoutRole("superAdmin") \o Return("superAdmin")

\* runFlows: the four flows, then the split of their results and the page metrics
runFlows ==
    runCandidateFlow \o runRecruiterFlow \o runCompanyAdminFlow \o runSuperAdminFlow
    \o <<Item("flows", "flows", "capturePageMetrics", "perf")>>

\* runAttacks: jwt, idor, upload, privilege, ratelimit, then the merge of their results
runAttacks ==
    Items("jwt", "jwt", JWT_ATTACKS, "probe") \o Return("jwt")
    \o Items("idor", "idor", [i \in 1..Len(IdorCases) |-> IdorCases[i].attack], "probe")
    \o Return("idor")
    \o Items("upload", "upload", UploadCases, "probe") \o Return("upload")
    \o Items("privilege", "privilege",
             [i \in 1..Len(PrivilegeCases) |-> PrivilegeCases[i].attack], "probe")
    \o Return("privilege")
    \o Items("ratelimit", "ratelimit", [i \in 1..Len(FloodCases) |-> FloodCases[i].name], "flood")
    \o Return("ratelimit")
    \o <<Item("attacks", "attacks", "return", "phaseReturn")>>

INPUT_CASES ==
    <<"empty", "whitespace only", "long string", "special chars", "xss basic", "xss img",
      "sql injection", "sql drop", "unicode overflow", "null byte", "negative number",
      "float overflow", "invalid email", "html entity">>

FILE_CASES ==
    <<"0 byte file", "50MB PDF", "password-protected PDF", "corrupted PDF header",
      "PDF with embedded JavaScript", "image renamed as PDF", "HTML file renamed as PDF">>

\* runEdges, for a register form with one visible field or with none
runEdges(hasFields) ==
    <<Item("edges", "edgeCases", "goto:/register", "goto"),
      Item("input", "edgeCases", "discoverFields", "discover")>>
    \o (IF hasFields THEN Items("input", "edgeCases", INPUT_CASES, "input") ELSE <<>>)
    \o Return("input")
    \o <<Item("edges", "fileEdge", "goto:/candidate/profile", "goto")>>
    \o Items("file", "fileEdge", FILE_CASES, "file")
    \o Return("file")
    \o <<Item("edges", "edges", "return", "phaseReturn")>>

\* an executeSuite that runs the attacks whatever --only says, and before the flows
executeSuiteAttacksFirst ==
    [only \in OnlyModes |-> [hasFields \in BOOLEAN |->
        runAttacks
        \o (IF only \in {"all", "flows", "performance"} THEN runFlows ELSE <<>>)
        \o (IF only = "all" THEN runEdges(hasFields) ELSE <<>>)]]

\* executeSuite: which pipelines run under --only
executeSuite ==
    [only \in OnlyModes |-> [hasFields \in BOOLEAN |->
        (IF only \in {"all", "flows", "performance"} THEN runFlows ELSE <<>>)
        \o (IF only \in {"all", "attacks"} THEN runAttacks ELSE <<>>)
        \o (IF only = "all" THEN runEdges(hasFields) ELSE <<>>)]]

\* /forbidden-route|cross-company|status/i.test(step), over the step names of the flows
IsBusinessStep(step) ==
    step \in {"forbidden-route:/recruiter/dashboard", "forbidden-route:/admin/dashboard",
              "forbidden-route:/superadmin/dashboard", "cross-company-candidate-access",
              "check-application-status", "change-application-status"}

classifyInputUiFirst(uiError, consoleCount, networkCount) ==
    IF uiError THEN "PASS"
    ELSE IF consoleCount > 0 \/ networkCount > 0 THEN "FAIL" ELSE "WARN"

\* classify of inputTester
classifyInput(uiError, consoleCount, networkCount) ==
    IF consoleCount > 0 \/ networkCount > 0 THEN "FAIL"
    ELSE IF uiError THEN "PASS" ELSE "WARN"

\* the severity rule of runFileEdgeCases
classifyFile(uiError) == IF uiError THEN "PASS" ELSE "WARN"

\* the classifier each status-classifying module applies
classifyFor(module, status) ==
    CASE module = "jwt" -> classifyJwtStatus(status)
      [] module = "idor" -> classifyIdor(status)
      [] module = "upload" -> classifyUpload(status)
      [] module = "privilege" -> classifyPrivilege(status)

-----------------------------------------------------------------------------
(* edgeCases: the input and the file engine, submission by submission, with *)
(* the console and the network watcher attached to the page.  The watcher   *)
(* callbacks run while an engine is suspended in an await.                  *)

\* most fields discoverFields returns
MaxFields == 1
\* most console messages and responses the page produces during the engines
MaxEvents == 1
\* most cases that begin while the read of a response body is pending
MaxLag == 1

\* msg.type() of a console message
ConsoleTypes == {"log", "warning", "error"}

\* the context of the watchers when runEdges is entered: the last setContext call of
\* runFlows is the one of logoutRole(page, 'superAdmin', ..)
FlowsEndContext == [role |-> "superAdmin", flow |-> "auth"]

\* options.role and options.flow that runEdges hands to the two engines
EngineContext(engine) ==
    [role |-> "candidate", flow |-> IF engine = "input" THEN "edgeCases" ELSE "fileEdge"]

\* page.on('console'): warnings and errors are pushed, everything else is dropped
consoleWatcher(logs, context, type) ==
    IF type # "warning" /\ type # "error" THEN logs
    ELSE Append(logs, [role |-> context.role, flow |-> context.flow, level |-> type])

\* the responses the page receives: status, slower than the threshold, all three
\* security headers present, a sensitive key in the body
Responses ==
    {[status |-> 200, slow |-> FALSE, secure |-> TRUE, leak |-> FALSE],
     [status |-> 500, slow |-> FALSE, secure |-> TRUE, leak |-> FALSE],
     [status |-> 200, slow |-> TRUE, secure |-> FALSE, leak |-> FALSE],
     [status |-> 200, slow |-> FALSE, secure |-> TRUE, leak |-> TRUE]}

\* an issue of the network watcher
Issue(context, type) == [role |-> context.role, flow |-> context.flow, type |-> type]

\* page.on('response') up to its await: one issue per finding of the three checks on
\* status, duration and headers, in their order
networkWatcher(issues, context, response) ==
    issues
    \o (IF response.status >= 400 THEN <<Issue(context, "http_error")>> ELSE <<>>)
    \o (IF response.slow THEN <<Issue(context, "slow_response")>> ELSE <<>>)
    \o (IF ~response.secure THEN <<Issue(context, "missing_security_headers")>> ELSE <<>>)

\* the result of one case; seen is the number of watcher entries the callbacks
\* appended between the first await of the case and its reading of the page
EdgeResult(engine, field, caseLabel, severity, artifacts, uiError, seen) ==
    [engine |-> engine, field |-> field, caseLabel |-> caseLabel, severity |-> severity,
     screenshotPath |-> artifacts, htmlPath |-> artifacts, uiError |-> uiError, seen |-> seen]

\* the cases of the running engine and the position after the current case
CasesOf(engine) == IF engine = "input" THEN INPUT_CASES ELSE FILE_CASES

\* the loops of runInputEdgeCases and runFileEdgeCases advance, or the engine returns
Advance(e) ==
    IF e.idx < Len(CasesOf(e.engine)) THEN [e EXCEPT !.pc = "begin", !.idx = @ + 1]
    ELSE IF e.engine = "input" /\ e.field < e.fields
         THEN [e EXCEPT !.pc = "begin", !.idx = 1, !.field = @ + 1]
    ELSE IF e.engine = "input"
         THEN [e EXCEPT !.pc = "goto", !.engine = "file", !.idx = 1, !.field = 0]
    ELSE [e EXCEPT !.pc = "returned"]

InitEdge ==
    /\ call = NoCall
    /\ ret = NoRet
    /\ atk = IdleAtk
    /\ flood = IdleFlood
    /\ run = IdleRun
    /\ disk = <<>>
    /\ watch = IdleWatch
    /\ \E fields \in 0..MaxFields, messages \in BOOLEAN :
          edge = [pc |-> IF fields = 0 THEN "goto" ELSE "begin",
                  engine |-> IF fields = 0 THEN "file" ELSE "input",
                  fields |-> fields, messages |-> messages,
                  field |-> IF fields = 0 THEN 0 ELSE 1, idx |-> 1,
                  context |-> FlowsEndContext,
                  console |-> <<>>, network |-> <<>>, events |-> 0,
                  reads |-> <<>>, late |-> 0,
                  c0 |-> 0, n0 |-> 0, appended |-> 0, held |-> <<>>, results |-> <<>>]

Suspended == edge.pc \in {"window", "capture", "goto"}

\* the case that is running or the next to run, counted over both engines
CaseNo == Len(edge.results) + 1

\* no more than MaxLag cases begin while a body read is pending
ReadsInTime == \A k \in 1..Len(edge.reads) : CaseNo - edge.reads[k].cause <= MaxLag

\* the console callback of the watcher
ConsoleMessage ==
    /\ Suspended
    /\ edge.events < MaxEvents
    /\ \E type \in ConsoleTypes :
          edge' = [edge EXCEPT !.console = consoleWatcher(@, edge.context, type),
                               !.events = @ + 1,
                               !.appended = @ + Len(consoleWatcher(edge.console, edge.context,
                                                                   type))
                                              - Len(edge.console)]
    /\ UNCHANGED <<call, ret, atk, disk, flood, run, watch>>

\* the response callback of the watcher up to the await in flagSensitiveData
NetworkResponse ==
    /\ Suspended
    /\ edge.events < MaxEvents
    /\ \E response \in Responses :
          LET issues == networkWatcher(edge.network, edge.context, response)
              added == Len(issues) - Len(edge.network)
          IN  edge' = [edge EXCEPT
                  !.network = issues, !.events = @ + 1,
                  !.appended = @ + added,
                  !.reads = IF ~response.leak THEN @
                            ELSE Append(@, [context |-> edge.context, cause |-> CaseNo])]
    /\ UNCHANGED <<call, ret, atk, disk, flood, run, watch>>

\* response.text() of a response with a sensitive key has resolved while an engine is
\* suspended: the rest of flagSensitiveData (for any other body it pushes nothing);
\* late counts the issues pushed since the last case began whose response was
\* delivered during an earlier case
SensitiveData ==
    /\ Suspended
    /\ \E k \in 1..Len(edge.reads) :
          LET read == edge.reads[k]
              rest == SubSeq(edge.reads, 1, k - 1) \o SubSeq(edge.reads, k + 1, Len(edge.reads))
          IN  edge' = [edge EXCEPT
                  !.reads = rest,
                  !.network = Append(@, Issue(read.context, "sensitive_data_exposed")),
                  !.appended = @ + 1,
                  !.late = IF read.cause < CaseNo THEN @ + 1 ELSE @]
    /\ UNCHANGED <<call, ret, atk, disk, flood, run, watch>>

\* page.goto of runEdges before runFileEdgeCases
GotoProfile ==
    /\ edge.pc = "goto"
    /\ \/ edge' = [edge EXCEPT !.pc = "begin"]
       \/ edge' = [edge EXCEPT !.pc = "rejected"]
    /\ UNCHANGED <<call, ret, atk, disk, flood, run, watch>>

\* runSingleCase up to its first await: c0 and n0 are read
InputBegin ==
    /\ edge.pc = "begin" /\ edge.engine = "input"
    /\ ReadsInTime
    /\ edge' = [edge EXCEPT !.pc = "window", !.appended = 0, !.late = 0,
                            !.c0 = Len(edge.console), !.n0 = Len(edge.network)]
    /\ UNCHANGED <<call, ret, atk, disk, flood, run, watch>>

\* runSingleCase from readVisibleError to the return for PASS and INFO
InputClassify ==
    /\ edge.pc = "window" /\ edge.engine = "input"
    /\ LET uiError == edge.messages
           consoleCount == Len(SliceFrom(edge.console, edge.c0))
           networkCount == Len(SliceFrom(edge.network, edge.n0))
           severity == classifyInput(uiError, consoleCount, networkCount)
           result(artifacts) ==
               EdgeResult("input", edge.field, INPUT_CASES[edge.idx], severity, artifacts,
                          uiError, edge.appended)
       IN  \/ edge' = [edge EXCEPT !.pc = "rejected"]
           \/ /\ severity \in {"PASS", "INFO"}
              /\ edge' = Advance([edge EXCEPT !.results = Append(@, result(FALSE))])
           \/ /\ severity \notin {"PASS", "INFO"}
              /\ edge' = [edge EXCEPT !.pc = "capture", !.held = <<result(TRUE)>>]
    /\ UNCHANGED <<call, ret, atk, disk, flood, run, watch>>

\* one iteration of runFileEdgeCases up to its first await
FileBegin ==
    /\ edge.pc = "begin" /\ edge.engine = "file"
    /\ ReadsInTime
    /\ edge' = [edge EXCEPT !.pc = "window", !.appended = 0, !.late = 0]
    /\ UNCHANGED <<call, ret, atk, disk, flood, run, watch>>

\* runFileEdgeCases from readVisibleError to the return of withEvidenceOnWarnFail
\* for PASS and INFO
FileClassify ==
    /\ edge.pc = "window" /\ edge.engine = "file"
    /\ LET uiError == edge.messages
           severity == classifyFile(uiError)
           result(artifacts) ==
               EdgeResult("file", 0, FILE_CASES[edge.idx], severity, artifacts, uiError,
                          edge.appended)
       IN  \/ edge' = [edge EXCEPT !.pc = "rejected"]
           \/ /\ severity \in {"PASS", "INFO"}
              /\ edge' = Advance([edge EXCEPT !.results = Append(@, result(FALSE))])
           \/ /\ severity \notin {"PASS", "INFO"}
              /\ edge' = [edge EXCEPT !.pc = "capture", !.held = <<result(TRUE)>>]
    /\ UNCHANGED <<call, ret, atk, disk, flood, run, watch>>

\* captureFailureEvidence and saveJsonEvidence of a case that is not PASS or INFO
EdgeEvidence ==
    /\ edge.pc = "capture"
    /\ LET label == <<edge.engine, CasesOf(edge.engine)[edge.idx]>>
       IN  \/ /\ disk' = disk \o <<[label |-> label, kind |-> "capture"],
                                   [label |-> label, kind |-> "json"]>>
              /\ edge' = Advance([edge EXCEPT !.results = Append(@, edge.held[1]),
                                              !.held = <<>>])
           \/ /\ edge' = [edge EXCEPT !.pc = "rejected"]
              /\ disk' = disk
    /\ UNCHANGED <<call, ret, atk, flood, run, watch>>

NextEdge ==
    \/ ConsoleMessage \/ NetworkResponse \/ SensitiveData
    \/ GotoProfile \/ InputBegin \/ InputClassify \/ FileBegin \/ FileClassify
    \/ EdgeEvidence

SpecEdge == InitEdge /\ [][NextEdge]_vars

-----------------------------------------------------------------------------
(* watchers: the console and the network watcher attached to one page, the  *)
(* orchestrator setting their context and reading their lists, the page     *)
(* delivering console messages and responses, body reads completing later.  *)

\* most notifications (console messages and responses) the page delivers
MaxNotes == 2
\* most lists handed out by getLogs and getIssues
MaxCopies == 1

\* config.slowThresholdMs (schema default)
SlowThresholdMs == 2000

\* the role and flow the orchestrator announces; the first is the one at attach time
BootContext == [role |-> "global", flow |-> "bootstrap"]
Contexts == {BootContext, [role |-> "candidate", flow |-> "auth"]}

\* the arrays of the closures: logs of attachConsoleWatcher, issues of attachNetworkWatcher
LogsRef == 1
IssuesRef == 2

\* the responses the page receives: status, getDurationMs, the number of required
\* headers that are absent, and what response.text() gives
Bodies == {"sensitive key", "clean", "unreadable"}
Response(status, durationMs, missing, body) ==
    [status |-> status, durationMs |-> durationMs, missing |-> missing, body |-> body]
WatchedResponses ==
    {Response(399, SlowThresholdMs, 0, "clean"),
     Response(399, SlowThresholdMs, 0, "sensitive key"),
     Response(400, SlowThresholdMs, 0, "unreadable"),
     Response(399, SlowThresholdMs + 1, 0, "clean"),
     Response(399, SlowThresholdMs, 2, "clean"),
     Response(400, SlowThresholdMs + 1, 2, "sensitive key")}

\* pushIssue
pushIssue(issues, role, flow, type, id) ==
    Append(issues, [role |-> role, flow |-> flow, type |-> type, id |-> id])

\* flagMissingHeaders
flagMissingHeaders(issues, role, flow, response, id) ==
    IF response.missing = 0 THEN issues
    ELSE pushIssue(issues, role, flow, "missing_security_headers", id)

\* a response callback that stops at the first check that fires
onResponseFirstOnly(issues, role, flow, response, id) ==
    IF response.status >= 400 THEN pushIssue(issues, role, flow, "http_error", id)
    ELSE IF response.durationMs > SlowThresholdMs
         THEN pushIssue(issues, role, flow, "slow_response", id)
         ELSE flagMissingHeaders(issues, role, flow, response, id)

\* the response callback up to its await: the checks on status, duration and headers
onResponse(issues, role, flow, response, id) ==
    LET a == IF response.status >= 400
             THEN pushIssue(issues, role, flow, "http_error", id) ELSE issues
        b == IF response.durationMs > SlowThresholdMs
             THEN pushIssue(a, role, flow, "slow_response", id) ELSE a
    IN  flagMissingHeaders(b, role, flow, response, id)

\* flagSensitiveData after safeText has resolved, with the role and flow it was
\* called with; the context of the watcher at that time is not read
flagSensitiveDataLate(issues, read, context) ==
    IF read.body # "sensitive key" THEN issues
    ELSE pushIssue(issues, context.role, context.flow, "sensitive_data_exposed", read.id)

flagSensitiveData(issues, read, context) ==
    IF read.body # "sensitive key" THEN issues
    ELSE pushIssue(issues, read.role, read.flow, "sensitive_data_exposed", read.id)

\* getLogs / getIssues that hand out the array of the closure itself
getListAliased(arrays, ref) == [arrays |-> arrays, ref |-> ref]

\* getLogs: () => [...logs] and getIssues: () => [...issues]: a new array with the
\* same entries
getList(arrays, ref) == [arrays |-> Append(arrays, arrays[ref]), ref |-> Len(arrays) + 1]

InitWatch ==
    /\ call = NoCall
    /\ ret = NoRet
    /\ atk = IdleAtk
    /\ flood = IdleFlood
    /\ run = IdleRun
    /\ edge = IdleEdge
    /\ disk = <<>>
    /\ watch = [pc |-> "attached",
                console |-> BootContext, network |-> BootContext,
                arrays |-> <<(<<>>), (<<>>)>>,
                delivered |-> <<>>, reads |-> {},
                returned |-> {}, modified |-> {}, copies |-> 0]

\* setContext of a flow: consoleWatcher.setContext(role, flow) and
\* networkWatcher.setContext(role, flow), one after the other with no await between
SetContext ==
    /\ watch.pc = "attached"
    /\ \E c \in Contexts \ {BootContext} :
          /\ c # watch.network
          /\ watch' = [watch EXCEPT !.console = c, !.network = c]
    /\ UNCHANGED <<call, ret, atk, disk, flood, run, edge>>

\* page.on('console', ..): the callback of the console watcher
OnConsole ==
    /\ watch.pc = "attached"
    /\ Len(watch.delivered) < MaxNotes
    /\ \E type \in ConsoleTypes :
          LET id == Len(watch.delivered) + 1
          IN  watch' = [watch EXCEPT
                  !.delivered = Append(@, [kind |-> "console", context |-> watch.console,
                                           type |-> type]),
                  !.arrays[LogsRef] =
                      IF type # "warning" /\ type # "error" THEN @
                      ELSE Append(@, [role |-> watch.console.role, flow |-> watch.console.flow,
                                      level |-> type, id |-> id])]
    /\ UNCHANGED <<call, ret, atk, disk, flood, run, edge>>

\* page.on('response', ..): the callback of the network watcher up to its await
OnResponse ==
    /\ watch.pc = "attached"
    /\ Len(watch.delivered) < MaxNotes
    /\ \E response \in WatchedResponses :
          LET id == Len(watch.delivered) + 1
          IN  watch' = [watch EXCEPT
                  !.delivered = Append(@, [kind |-> "response", context |-> watch.network,
                                           response |-> response]),
                  !.arrays[IssuesRef] =
                      onResponse(@, watch.network.role, watch.network.flow, response, id),
                  !.reads = @ \cup {[id |-> id, role |-> watch.network.role,
                                     flow |-> watch.network.flow, body |-> response.body]}]
    /\ UNCHANGED <<call, ret, atk, disk, flood, run, edge>>

\* safeText of a response has resolved: the rest of flagSensitiveData runs
BodyRead ==
    /\ watch.pc = "attached"
    /\ \E read \in watch.reads :
          watch' = [watch EXCEPT
              !.reads = @ \ {read},
              !.arrays[IssuesRef] = flagSensitiveData(@, read, watch.network)]
    /\ UNCHANGED <<call, ret, atk, disk, flood, run, edge>>

\* a caller asks for the console logs or the network issues
GetList ==
    /\ watch.pc = "attached"
    /\ watch.copies < MaxCopies
    /\ \E ref \in {LogsRef, IssuesRef} :
          LET got == getList(watch.arrays, ref)
          IN  watch' = [watch EXCEPT !.arrays = got.arrays,
                                     !.returned = @ \cup {got.ref},
                                     !.copies = @ + 1]
    /\ UNCHANGED <<call, ret, atk, disk, flood, run, edge>>

\* the caller changes a list it was handed: length = 0, or [0] = another entry
ModifyReturned ==
    /\ watch.pc = "attached"
    /\ \E ref \in watch.returned :
          /\ watch.arrays[ref] # <<>>
          /\ \/ watch' = [watch EXCEPT !.arrays[ref] = <<>>,
                                        !.modified = @ \cup {ref}]
             \/ /\ watch.arrays[ref][1].id # 0
                /\ watch' = [watch EXCEPT !.arrays[ref][1].id = 0,
                                          !.modified = @ \cup {ref}]
    /\ UNCHANGED <<call, ret, atk, disk, flood, run, edge>>

NextWatch ==
    \/ SetContext
    \/ OnConsole \/ OnResponse \/ BodyRead
    \/ GetList \/ ModifyReturned

SpecWatch == InitWatch /\ [][NextWatch]_vars

-----------------------------------------------------------------------------
(* The application under test, as the set of its defects.                  *)

Defects ==
    {"dashboard_missing", "jobs_page_broken", "admin_routes_open", "tenant_isolation_missing",
     "forged_tokens_accepted", "sessions_survive_logout", "upload_unfiltered", "api_missing",
     "api_redirects", "no_rate_limit", "no_validation_messages", "console_errors_on_submit",
     "form_without_fields", "opaque_tokens",
     "registration_unreachable", "registration_closed", "login_rejected", "login_without_token"}

\* the largest number of defects of one application under test
MaxDefects == 2

Servers == {s \in SUBSET Defects : Cardinality(s) <= MaxDefects}

\* the function handed to runStep throws (an element never shows, a click times out)
FnThrows(server, it) ==
    \/ "dashboard_missing" \in server /\ it.step = "validate-dashboard"
    \/ "jobs_page_broken" \in server /\ it.step \in {"browse-jobs", "apply-to-job"}

\* page.url() after the navigation of a boundary check is none of the denial pages
AccessGranted(server, it) ==
    \/ "admin_routes_open" \in server /\ it.step = "forbidden-route:/admin/dashboard"
    \/ "tenant_isolation_missing" \in server /\ it.step = "cross-company-candidate-access"

\* response.status() of the probe request of an attack case
StatusOf(server, it) ==
    CASE it.module = "jwt" ->
            IF \/ "forged_tokens_accepted" \in server
                  /\ it.step \in {"invalid_signature", "none_algorithm", "role_escalation"}
               \/ "sessions_survive_logout" \in server /\ it.step = "reused_after_logout"
            THEN 200 ELSE 401
      [] it.module = "idor" ->
            IF "tenant_isolation_missing" \in server
               /\ it.step = "recruiter_other_company_candidates" THEN 200
            ELSE IF "api_missing" \in server THEN 404 ELSE 403
      [] it.module = "upload" ->
            IF "upload_unfiltered" \in server THEN 201
            ELSE IF "api_redirects" \in server THEN 302 ELSE 422
      [] it.module = "privilege" ->
            IF "api_missing" \in server THEN 404
            ELSE IF "api_redirects" \in server THEN 302 ELSE 403

\* the statuses a burst of count requests collects
BurstStatuses(server, count) ==
    [i \in 1..count |->
        Respond([kind |-> IF "no_rate_limit" \in server THEN "never" ELSE "from",
                 K |-> 0, base |-> 200], i - 1)]

\* readVisibleError(...) is a non-empty text
UiError(server) == "no_validation_messages" \notin server
\* console and network events appended between the two reads of the watcher lists
EventCount(server) == IF "console_errors_on_submit" \in server THEN 1 ELSE 0
\* discoverFields finds a field
HasFields(server) == "form_without_fields" \notin server
\* the token the login answers is a three-segment JWT with a JSON payload
TokenIsJwt(server) == "opaque_tokens" \notin server
\* the cases of JWT_ATTACKS whose token is built from the decoded payload
ForgesFromPayload(step) == step \in {"expired_token", "invalid_signature", "none_algorithm", "role_escalation"}

-----------------------------------------------------------------------------
(* run-suite: prepareRuntimeState *)

\* the roles createTestUsersPerRole registers users for
SeedRoles == <<"candidate", "recruiter", "companyAdmin", "superAdmin">>
\* for (let i = 1; i <= 2; i += 1)
UsersPerRole == 2

\* the tokens of issueTokens, in the order of its awaits, and the role each logs in as
TokenLabels == <<"candidateA", "candidateB", "recruiter", "companyAdmin", "superAdmin">>
RoleOf(label) == IF label \in {"candidateA", "candidateB"} THEN "candidate" ELSE label

\* the sets of labels whose token process.env supplies (CANDIDATE_A_TOKEN, ...)
EnvChoices == {{}, {"candidateA", "candidateB"}}

\* the register call: api.post or safeBody rejects ("thrown"), or the call resolves,
\* with an account created or with a rejection status
RegisterOutcome(server) ==
    IF "registration_unreachable" \in server THEN "thrown"
    ELSE IF "registration_closed" \in server THEN "rejected"
    ELSE "created"

\* config.credentials[role]: an account the target knows
Configured(role) == [role |-> role, n |-> 0, origin |-> "configured", known |-> TRUE]
\* { email: `qa.${role}.${Date.now()}.${i}@example.test`, password, id }
Ephemeral(role, i, known) == [role |-> role, n |-> i, origin |-> "ephemeral", known |-> known]

\* users.filter((u) => u.email.includes('.candidate.'))[index] ?? fallback
pickUser(users, index, fallback) ==
    LET candidates == SelectSeq(users, LAMBDA u : u.role = "candidate")
    IN  IF index + 1 <= Len(candidates) THEN candidates[index + 1] ELSE fallback

\* the credentials issueTokens logs in with for the n-th label
CredFor(users, n) ==
    IF n <= 2 THEN pickUser(users, n - 1, Configured("candidate"))
    ELSE Configured(RoleOf(TokenLabels[n]))

\* the answer of POST /auth/login: res.ok() and readToken(body, set-cookie)
LoginResponse(server, cred) ==
    [ok |-> cred.known /\ "login_rejected" \notin server,
     token |-> IF cred.known /\ "login_without_token" \notin server THEN <<"t">> ELSE <<>>]

loginForTokenLenient(res) == [thrown |-> FALSE, token |-> res.token]

\* if (!res.ok()) throw ...; if (!token) throw ...; return token
loginForToken(res) ==
    IF ~res.ok THEN [thrown |-> TRUE, token |-> <<>>]
    ELSE IF res.token = <<>> THEN [thrown |-> TRUE, token |-> <<>>]
    ELSE [thrown |-> FALSE, token |-> res.token]

NoPrep == [step |-> "register", n |-> 1, users |-> <<>>, tokens |-> <<>>, sent |-> <<>>]

-----------------------------------------------------------------------------
(* run-suite: main *)

\* what main acquires before its try block, and what it releases, in order
Acquired == <<"browser", "context", "page", "api">>
Released == <<"api", "context", "browser">>

NoFindings == [flow |-> <<>>, security |-> <<>>, business |-> <<>>, edge |-> <<>>]

Init ==
    /\ call = NoCall
    /\ ret = NoRet
    /\ atk = IdleAtk
    /\ flood = IdleFlood
    /\ edge = IdleEdge
    /\ watch = IdleWatch
    /\ disk = <<>>
    /\ \E only \in OnlyModes, server \in Servers, env \in EnvChoices :
          run = [pc |-> "launch", only |-> only, server |-> server, env |-> env,
                 prep |-> NoPrep, pos |-> 1,
                 acquired |-> 0, released |-> {}, relIdx |-> 0,
                 out |-> <<>>, returned |-> <<>>, findings |-> NoFindings,
                 emitted |-> <<>>, fault |-> <<>>, code |-> -1, exitCode |-> -1, via |-> "none"]

plan == executeSuite[run.only][HasFields(run.server)]
Cur == plan[run.pos]
InSuite(kind) == run.pc = "suite" /\ run.pos <= Len(plan) /\ Cur.kind = kind

Finding(it, severity, artifact) ==
    [module |-> it.module, flow |-> it.flow, step |-> it.step,
     severity |-> severity, artifact |-> artifact]
Artifact(it, kind) == [label |-> <<it.module, it.step>>, kind |-> kind]

\* the finding is appended to the result list of the running module
Push(f) ==
    run' = [run EXCEPT !.out = Append(@, f), !.emitted = Append(@, f), !.pos = @ + 1]

\* an exception leaves every function between the step and main: their lists are gone
Throw(kind) ==
    run' = [run EXCEPT !.pc = "catch", !.fault = <<[kind |-> kind, at |-> run.pos]>>,
                       !.out = <<>>, !.returned = <<>>, !.findings = NoFindings,
                       !.relIdx = 0]

\* the awaits of main before its try block; a rejection there is handled by nobody
Launch ==
    /\ run.pc = "launch"
    /\ \/ run' = [run EXCEPT !.acquired = @ + 1,
                             !.pc = IF run.acquired + 1 = Len(Acquired) THEN "prepare" ELSE "launch"]
       \/ run' = [run EXCEPT !.pc = "exited", !.exitCode = 1, !.via = "unhandled",
                             !.fault = <<[kind |-> "launch", at |-> 0]>>]
    /\ UNCHANGED <<call, ret, atk, disk, flood, edge, watch>>

\* one turn of the loops of createTestUsersPerRole: a rejected call is caught and logged
RegisterUser ==
    /\ run.pc = "prepare" /\ run.prep.step = "register"
    /\ LET n == run.prep.n
           role == SeedRoles[((n - 1) \div UsersPerRole) + 1]
           i == ((n - 1) % UsersPerRole) + 1
           outcome == RegisterOutcome(run.server)
           last == n = Len(SeedRoles) * UsersPerRole
       IN  run' = [run EXCEPT
              !.prep.sent = Append(@, [op |-> "register", who |-> role, n |-> i,
                                       answered |-> outcome # "thrown"]),
              !.prep.users = IF outcome = "thrown" THEN @
                             ELSE Append(@, Ephemeral(role, i, outcome = "created")),
              !.prep.step = IF last THEN "tokens" ELSE @,
              !.prep.n = IF last THEN 1 ELSE n + 1]
    /\ UNCHANGED <<call, ret, atk, disk, flood, edge, watch>>

\* one line of issueTokens: process.env.X ?? await loginForToken(...)
IssueToken ==
    /\ run.pc = "prepare" /\ run.prep.step = "tokens"
    /\ LET n == run.prep.n
           label == TokenLabels[n]
           cred == CredFor(run.prep.users, n)
           r == loginForToken(LoginResponse(run.server, cred))
           last == n = Len(TokenLabels)
           issued(origin) ==
               [run EXCEPT !.prep.tokens = Append(@, [label |-> label, origin |-> origin]),
                           !.prep.step = IF last THEN "seed" ELSE @,
                           !.prep.n = IF last THEN 1 ELSE n + 1]
           sent(rn, answered) ==
               [rn EXCEPT !.prep.sent = Append(@, [op |-> "login", who |-> label, n |-> cred.n,
                                                   answered |-> answered])]
       IN  IF label \in run.env
           THEN run' = issued("env")
           ELSE \/ run' = sent([run EXCEPT !.pc = "catch", !.relIdx = 0,
                                           !.fault = <<[kind |-> "prepare", at |-> run.pos]>>],
                               FALSE)
                \/ /\ r.thrown
                   /\ run' = sent([run EXCEPT !.pc = "catch", !.relIdx = 0,
                                              !.fault = <<[kind |-> "login", at |-> run.pos]>>],
                                  TRUE)
                \/ /\ ~r.thrown
                   /\ run' = sent(issued(cred.origin), TRUE)
    /\ UNCHANGED <<call, ret, atk, disk, flood, edge, watch>>

\* resolveSeedIds: two createApplication calls, neither caught; prepareRuntimeState returns
ResolveSeedIds ==
    /\ run.pc = "prepare" /\ run.prep.step = "seed"
    /\ \/ run' = [run EXCEPT !.pc = "suite", !.prep.step = "done"]
       \/ Throw("prepare")
    /\ UNCHANGED <<call, ret, atk, disk, flood, edge, watch>>

\* the watchers are attached and prepareRuntimeState registers, logs in and seeds
PrepareRuntimeState == RegisterUser \/ IssueToken \/ ResolveSeedIds

\* runStep of auth.flow
AuthRunStep ==
    /\ InSuite("auth")
    /\ IF ~FnThrows(run.server, Cur)
       THEN Push(Finding(Cur, "PASS", FALSE)) /\ disk' = disk
       ELSE \/ /\ disk' = Append(disk, Artifact(Cur, "capture"))
               /\ Push(Finding(Cur, "FAIL", TRUE))
            \/ Throw("capture") /\ disk' = disk
    /\ UNCHANGED <<call, ret, atk, flood, edge, watch>>

\* runStep of the candidate, recruiter, companyAdmin and superAdmin flows
FlowRunStep ==
    /\ InSuite("runStep")
    /\ IF ~FnThrows(run.server, Cur)
       THEN Push(Finding(Cur, "PASS", FALSE)) /\ disk' = disk
       ELSE \/ /\ disk' = Append(disk, Artifact(Cur, "capture"))
               /\ Push(Finding(Cur, "FAIL", TRUE))
            \/ Throw("capture") /\ disk' = disk
    /\ UNCHANGED <<call, ret, atk, flood, edge, watch>>

\* assertForbiddenRoute and assertCrossCompanyBlocked
BoundaryCheck ==
    /\ InSuite("boundary")
    /\ \/ Throw("navigation") /\ disk' = disk
       \/ /\ ~AccessGranted(run.server, Cur)
          /\ Push(Finding(Cur, "PASS", FALSE)) /\ disk' = disk
       \/ /\ AccessGranted(run.server, Cur)
          /\ \/ /\ disk' = Append(disk, Artifact(Cur, "capture"))
                /\ Push(Finding(Cur, "CRITICAL", TRUE))
             \/ Throw("capture") /\ disk' = disk
    /\ UNCHANGED <<call, ret, atk, flood, edge, watch>>

\* splitFlowFinding over the results of the four flows, then capturePageMetrics
CapturePageMetrics ==
    /\ InSuite("perf")
    /\ \/ Throw("metrics")
       \/ run' = [run EXCEPT
             !.findings.flow = @ \o SelectSeq(run.returned, LAMBDA f : ~IsBusinessStep(f.step)),
             !.findings.business = @ \o SelectSeq(run.returned, LAMBDA f : IsBusinessStep(f.step)),
             !.returned = <<>>,
             !.pos = @ + 1]
    /\ UNCHANGED <<call, ret, atk, disk, flood, edge, watch>>

\* one iteration of runJwtAttacks, runIdorAttacks, runUploadAttacks or runPrivilegeAttacks
ProbeCase ==
    /\ InSuite("probe")
    /\ IF Cur.module = "jwt" /\ ForgesFromPayload(Cur.step) /\ ~TokenIsJwt(run.server)
       THEN Throw("forge") /\ disk' = disk
       ELSE IF Cur.module = "upload" /\ createTempFileThrows(Cur.step)
       THEN Throw("tempfile") /\ disk' = disk
       ELSE \/ Throw("request") /\ disk' = disk
            \/ Throw("write") /\ disk' = disk
            \/ /\ disk' = Append(disk, Artifact(Cur, "http"))
               /\ Push(Finding(Cur, classifyFor(Cur.module, StatusOf(run.server, Cur)), TRUE))
    /\ UNCHANGED <<call, ret, atk, flood, edge, watch>>

\* one iteration of runRateLimitAttacks
FloodCase ==
    /\ InSuite("flood")
    /\ \/ Throw("request") /\ disk' = disk
       \/ Throw("write") /\ disk' = disk
       \/ /\ disk' = Append(disk, Artifact(Cur, "http"))
          /\ Push(Finding(Cur, floodSeverity(BurstStatuses(run.server, CaseOf(Cur.step).count)), TRUE))
    /\ UNCHANGED <<call, ret, atk, flood, edge, watch>>

\* page.goto of runEdges
EdgeGoto ==
    /\ InSuite("goto")
    /\ \/ run' = [run EXCEPT !.pos = @ + 1]
       \/ Throw("navigation")
    /\ UNCHANGED <<call, ret, atk, disk, flood, edge, watch>>

\* discoverFields
DiscoverFields ==
    /\ InSuite("discover")
    /\ \/ run' = [run EXCEPT !.pos = @ + 1]
       \/ Throw("ui")
    /\ UNCHANGED <<call, ret, atk, disk, flood, edge, watch>>

\* runSingleCase of inputTester and the push of its result
InputCase ==
    /\ InSuite("input")
    /\ LET severity == classifyInput(UiError(run.server), EventCount(run.server), 0)
       IN  \/ Throw("ui") /\ disk' = disk
           \/ /\ severity = "PASS"
              /\ Push(Finding(Cur, severity, FALSE)) /\ disk' = disk
           \/ /\ severity # "PASS"
              /\ \/ /\ disk' = disk \o <<Artifact(Cur, "capture"), Artifact(Cur, "json")>>
                    /\ Push(Finding(Cur, severity, TRUE))
                 \/ Throw("capture") /\ disk' = disk
                 \/ Throw("write") /\ disk' = Append(disk, Artifact(Cur, "capture"))
    /\ UNCHANGED <<call, ret, atk, flood, edge, watch>>

\* one iteration of runFileEdgeCases, withEvidenceOnWarnFail included
FileCase ==
    /\ InSuite("file")
    /\ LET severity == classifyFile(UiError(run.server))
       IN  \/ Throw("ui") /\ disk' = disk
           \/ /\ severity = "PASS"
              /\ Push(Finding(Cur, severity, FALSE)) /\ disk' = disk
           \/ /\ severity # "PASS"
              /\ \/ /\ disk' = disk \o <<Artifact(Cur, "capture"), Artifact(Cur, "json")>>
                    /\ Push(Finding(Cur, severity, TRUE))
                 \/ Throw("capture") /\ disk' = disk
                 \/ Throw("write") /\ disk' = Append(disk, Artifact(Cur, "capture"))
    /\ UNCHANGED <<call, ret, atk, flood, edge, watch>>

\* a module returns its list to runFlows, runAttacks or runEdges
ModuleReturn ==
    /\ InSuite("return")
    /\ run' = [run EXCEPT !.returned = @ \o run.out, !.out = <<>>, !.pos = @ + 1]
    /\ UNCHANGED <<call, ret, atk, disk, flood, edge, watch>>

\* runAttacks or runEdges returns and executeSuite pushes its findings
PhaseReturn ==
    /\ InSuite("phaseReturn")
    /\ run' = [run EXCEPT
          !.findings.security = IF Cur.module = "attacks" THEN @ \o run.returned ELSE @,
          !.findings.edge = IF Cur.module = "edges" THEN @ \o run.returned ELSE @,
          !.returned = <<>>,
          !.pos = @ + 1]
    /\ UNCHANGED <<call, ret, atk, disk, flood, edge, watch>>

\* executeSuite returns; cleanupRuntime swallows the failures of its DELETE calls
CleanupRuntime ==
    /\ run.pc = "suite" /\ run.pos > Len(plan)
    /\ run' = [run EXCEPT !.pc = "finalize"]
    /\ UNCHANGED <<call, ret, atk, disk, flood, edge, watch>>

\* finalizeReport writes the watcher logs and the report; main computes the exit code
FinalizeReport ==
    /\ run.pc = "finalize"
    /\ \/ Throw("report") /\ disk' = disk
       \/ /\ disk' = disk \o <<[label |-> <<"global", "watchers">>, kind |-> "json"],
                               [label |-> <<"global", "report">>, kind |-> "html"]>>
          /\ run' = [run EXCEPT
                !.pc = "release",
                !.code = computeExitCode(run.findings.flow \o run.findings.security
                                         \o run.findings.business \o run.findings.edge)]
    /\ UNCHANGED <<call, ret, atk, flood, edge, watch>>

\* api.dispose, context.close, browser.close: in the try block and again in the catch block
Release ==
    /\ run.pc \in {"release", "catch"}
    /\ run.relIdx < Len(Released)
    /\ \/ run' = [run EXCEPT !.relIdx = @ + 1, !.released = @ \cup {Released[run.relIdx + 1]}]
       \/ /\ run.pc = "release"
          /\ run' = [run EXCEPT !.pc = "catch", !.relIdx = 0,
                                !.fault = <<[kind |-> "release", at |-> run.pos]>>,
                                !.out = <<>>, !.returned = <<>>, !.findings = NoFindings]
       \/ /\ run.pc = "catch"
          /\ run' = [run EXCEPT !.pc = "exited", !.exitCode = 1, !.via = "unhandled"]
    /\ UNCHANGED <<call, ret, atk, disk, flood, edge, watch>>

\* process.exit(exitCode) of the try block, process.exit(1) of the catch block
ProcessExit ==
    /\ run.pc \in {"release", "catch"}
    /\ run.relIdx = Len(Released)
    /\ run' = [run EXCEPT !.pc = "exited",
                          !.exitCode = IF run.pc = "release" THEN run.code ELSE 1,
                          !.via = IF run.pc = "release" THEN "try" ELSE "catch"]
    /\ UNCHANGED <<call, ret, atk, disk, flood, edge, watch>>

\* The steps a run of main can take. runUploadAttacks never returns: its fourth
\* case throws in createTempFile (see createTempFileThrows), and nothing between
\* it and main's catch block handles the exception. So no run reaches what
\* follows it in the plan, and FloodCase, EdgeGoto, DiscoverFields, InputCase,
\* FileCase and PhaseReturn are no steps of main (the flood module and the
\* edge-case engines run on their own in SpecFlood and SpecEdge).
Next ==
    \/ Launch \/ PrepareRuntimeState
    \/ AuthRunStep \/ FlowRunStep \/ BoundaryCheck \/ CapturePageMetrics
    \/ ProbeCase
    \/ ModuleReturn
    \/ CleanupRuntime \/ FinalizeReport \/ Release \/ ProcessExit

Spec == Init /\ [][Next]_vars

EmittedSeverities == {run.emitted[i].severity : i \in 1..Len(run.emitted)}
FaultIs(kinds) == run.fault # <<>> /\ run.fault[1].kind \in kinds
\* the finding of the step or case at which the exception was raised
FindingsAtFault ==
    {i \in 1..Len(run.emitted) :
        /\ run.emitted[i].module = plan[run.fault[1].at].module
        /\ run.emitted[i].step = plan[run.fault[1].at].step
        /\ run.emitted[i].flow = plan[run.fault[1].at].flow}

(* C2: on every path by which main ends the process the exit code is 2     *)
(* whenever a CRITICAL finding was emitted during the run, 1 whenever a     *)
(* FAIL and no CRITICAL finding was emitted, and 0 only when the run        *)
(* completed with neither, a fatal error after the findings included.       *)
C2_ExitCodeOnEveryPath ==
    (run.pc = "exited" /\ run.via \in {"try", "catch"}) =>
        /\ "CRITICAL" \in EmittedSeverities => run.exitCode = 2
        /\ ("FAIL" \in EmittedSeverities /\ "CRITICAL" \notin EmittedSeverities) => run.exitCode = 1
        /\ run.exitCode = 0 =>
              (run.via = "try" /\ EmittedSeverities \cap {"CRITICAL", "FAIL"} = {})

(* C9: if the request of an attack case throws, a WARN or FAIL finding is   *)
(* recorded for that case, and every remaining case of the module and       *)
(* every later module is still executed.                                    *)
C9_RequestFailureIsolated ==
    (run.pc = "exited" /\ FaultIs({"request"})) =>
        /\ \E i \in FindingsAtFault : run.emitted[i].severity \in {"WARN", "FAIL"}
        /\ run.pos > Len(plan)

(* C10: if capturing or writing the evidence of a finding throws, the run   *)
(* is not aborted: the finding of that step or case is still emitted and    *)
(* all subsequent steps and cases are still executed.                       *)
C10_EvidenceFailureTolerated ==
    (run.pc = "exited" /\ FaultIs({"capture", "write"})) =>
        /\ FindingsAtFault # {}
        /\ run.pos > Len(plan)

\* the resources main holds once the first n awaits before its try block have settled;
\* the page goes with its context
Held(n) == {Acquired[i] : i \in 1..n} \ {"page"}

(* C11: on every path by which main ends the process, a fatal error after   *)
(* the first resource was acquired included, every resource acquired so far *)
(* has been released before the exit, the exit code of a fatal path is not  *)
(* 0, and a failing release does not keep the other resources from being    *)
(* released.                                                                *)
C11_ResourcesReleased ==
    run.pc = "exited" =>
        /\ Held(run.acquired) \subseteq run.released
        /\ run.fault # <<>> => run.exitCode # 0

\* the findings emitted for the step or case at position p of the plan
FindingsAt(p) ==
    {i \in 1..Len(run.emitted) :
        /\ run.emitted[i].module = plan[p].module
        /\ run.emitted[i].step = plan[p].step
        /\ run.emitted[i].flow = plan[p].flow}

\* exactly one finding was emitted for position p: a failed one that carries its evidence
OneFailedFindingAt(p) ==
    /\ Cardinality(FindingsAt(p)) = 1
    /\ \A i \in FindingsAt(p) : run.emitted[i].severity = "FAIL" /\ run.emitted[i].artifact

(* C12: for every UI step of a role flow, the forbidden-route and           *)
(* cross-company boundary checks included, a navigation or action that      *)
(* throws or times out leaves exactly one failed finding with captured      *)
(* evidence for that step, and the next step of the flow is executed.       *)
C12_UiStepFailureRecorded ==
    /\ \A p \in 1..Len(plan) :
          (/\ p < run.pos
           /\ plan[p].kind \in {"auth", "runStep"}
           /\ FnThrows(run.server, plan[p])) => OneFailedFindingAt(p)
    /\ (/\ run.pc = "exited"
        /\ FaultIs({"navigation"})
        /\ plan[run.fault[1].at].kind = "boundary") =>
           /\ OneFailedFindingAt(run.fault[1].at)
           /\ run.pos > run.fault[1].at

\* the logins of issueTokens that were answered with a non-OK status or without a token
FailedLogins ==
    {k \in 1..Len(run.prep.sent) :
        /\ run.prep.sent[k].op = "login" /\ run.prep.sent[k].answered
        /\ LET n == CHOOSE j \in 1..Len(TokenLabels) : TokenLabels[j] = run.prep.sent[k].who
               res == LoginResponse(run.server, CredFor(run.prep.users, n))
           IN  ~res.ok \/ res.token = <<>>}

ReportFinalized == \E k \in 1..Len(disk) : disk[k].label = <<"global", "report">>

(* C13: if, for a role whose token no environment override supplies, the    *)
(* login returns a non-OK status or yields no token, the run aborts with a  *)
(* fatal error: no flow step, attack case or edge case is executed, no      *)
(* report is finalized, and the process exits with a non-zero code.         *)
C13_LoginFailureAborts ==
    FailedLogins # {} =>
        /\ run.pc \in {"catch", "exited"}
        /\ FaultIs({"login"})
        /\ run.emitted = <<>> /\ run.pos = 1
        /\ ~ReportFinalized
        /\ run.pc = "exited" => run.exitCode # 0

\* the recruiter login fails after both candidate tokens came from the environment
C13_Witness ==
    /\ run.pc = "exited" /\ run.via = "catch"
    /\ run.env = {"candidateA", "candidateB"}
    /\ "login_without_token" \in run.server
    /\ FailedLogins # {}
    /\ run.prep.sent[Len(run.prep.sent)].who = "recruiter"
    /\ run.exitCode = 1

(* C14: account seeding is best-effort: whenever registering the ephemeral  *)
(* candidate users does not succeed (the request throws or the server       *)
(* rejects it) no register request is sent twice, the logins for candidateA *)
(* and candidateB use the configured candidate credentials, and the run is  *)
(* not aborted by a login that fails for lack of the account.               *)
C14_SeedingFallsBack ==
    RegisterOutcome(run.server) # "created" =>
        /\ \A j, k \in 1..Len(run.prep.sent) :
              (/\ j # k
               /\ run.prep.sent[j].op = "register"
               /\ run.prep.sent[k].op = "register") =>
                  <<run.prep.sent[j].who, run.prep.sent[j].n>>
                      # <<run.prep.sent[k].who, run.prep.sent[k].n>>
        /\ \A k \in 1..Len(run.prep.sent) :
              (/\ run.prep.sent[k].op = "login"
               /\ run.prep.sent[k].who \in {"candidateA", "candidateB"}) =>
                  run.prep.sent[k].n = 0
        /\ run.server \cap {"login_rejected", "login_without_token"} = {} =>
              ~FaultIs({"login"})

\* the three-way rule: an anomaly in the window is FAIL, else a visible message is PASS
ThreeWayRule(r) ==
    r.severity = (IF r.seen > 0 THEN "FAIL" ELSE IF r.uiError THEN "PASS" ELSE "WARN")

(* C15: for every input-fuzz case the severity is FAIL if at least one      *)
(* console or network event was appended between the index read before the *)
(* submission and the slice taken after it, a visible rejection message     *)
(* notwithstanding, PASS if there was none and a rejection message is       *)
(* shown, and WARN if there was neither.                                    *)
C15_InputThreeWayRule ==
    \A k \in 1..Len(edge.results) :
        edge.results[k].engine = "input" => ThreeWayRule(edge.results[k])

\* a case that is FAIL although its rejection message was shown, and a later case
\* that is PASS with the same entry still in the watcher list
C15_Witness ==
    \E j, k \in 1..Len(edge.results) :
        /\ j < k
        /\ edge.results[j].engine = "input" /\ edge.results[k].engine = "input"
        /\ edge.results[j].severity = "FAIL" /\ edge.results[j].uiError
        /\ edge.results[k].severity = "PASS"
        /\ Len(edge.console) + Len(edge.network) > 0

(* C16: for every hostile-file case the same three-way rule applies: FAIL   *)
(* if a console or network anomaly was observed in the window around the    *)
(* submission, PASS if none was and a rejection message is shown, WARN if   *)
(* neither.                                                                 *)
C16_FileThreeWayRule ==
    \A k \in 1..Len(edge.results) :
        edge.results[k].engine = "file" => ThreeWayRule(edge.results[k])


(* C17: every finding with severity PASS or INFO carries no artifact: no    *)
(* evidence file is stored for it and it names none. In particular the      *)
(* upload case 'empty file' answered with 422 is PASS with nothing stored.  *)
C17_PassingFindingsCarryNoArtifact ==
    \A k \in 1..Len(atk.results) :
        atk.results[k].severity \in {"PASS", "INFO"} =>
            /\ atk.results[k].evidencePath = 0
            /\ \A i \in 1..Len(disk) :
                  disk[i].label[2] # atk.results[k].attack


\* the requests of the reused_after_logout case, by position in the request log
ReplayProbes ==
    {j \in Probes : atk.requests[j].label = <<"jwt", "reused_after_logout">>}

(* C18: in the reused_after_logout case the logout request carrying the     *)
(* valid token was sent and answered before the protected endpoint is       *)
(* called, the token replayed is the valid token unmodified, and a 2xx      *)
(* answer to the replay gives a CRITICAL finding.                           *)
C18_ReplayAfterLogout ==
    \A j \in ReplayProbes :
        LET q == atk.requests[j]
        IN  /\ j > 1
            /\ atk.requests[j - 1].kind = "logout"
            /\ atk.requests[j - 1].label = q.label
            /\ atk.requests[j - 1].token = Some(atk.tokens.candidateA)
            /\ atk.requests[j - 1].answer \in LogoutStatuses
            /\ q.token = Some(atk.tokens.candidateA)
            /\ \A k \in ResultsOf(q.label) :
                  (q.answer >= 200 /\ q.answer <= 299) => atk.results[k].severity = "CRITICAL"
            /\ (q.answer # 0 /\ EvidenceOf(q.label) # {}) => Cardinality(ResultsOf(q.label)) = 1

\* the logout was answered, the valid token was replayed and accepted with 200
C18_Witness ==
    \E j \in ReplayProbes :
        /\ atk.requests[j].answer = 200
        /\ atk.requests[j].token = Some(atk.tokens.candidateA)
        /\ atk.requests[j - 1].kind = "logout"
        /\ atk.requests[j - 1].answer = 401
        /\ \E k \in ResultsOf(atk.requests[j].label) : atk.results[k].severity = "CRITICAL"


\* the fixed matrix of a module: the names of its cases, in order
MatrixOf(m) ==
    CASE m = "jwt" -> JWT_ATTACKS
      [] m = "idor" -> [i \in 1..Len(IdorCases) |-> IdorCases[i].attack]
      [] m = "privilege" -> [i \in 1..Len(PrivilegeCases) |-> PrivilegeCases[i].attack]
      [] m = "upload" -> UploadCases

\* the cases probed so far, in the order their requests were sent
ProbedCases ==
    LET sent == SelectSeq(atk.requests, LAMBDA q : q.kind = "probe")
    IN  [j \in 1..Len(sent) |-> sent[j].label[2]]

\* the cases with a finding, in the order the findings were pushed
EmittedCases == [k \in 1..Len(atk.results) |-> atk.results[k].attack]

(* C19: once a status-classifying attack module has ended, every entry of   *)
(* its matrix (7 jwt, 4 idor, 4 privilege, 8 upload) was probed by exactly  *)
(* one request and has exactly one finding, both in matrix order: no case   *)
(* is retried, skipped, merged or emitted twice.                            *)
C19_OneProbeOneFindingPerCase ==
    /\ Len(JWT_ATTACKS) = 7 /\ Len(IdorCases) = 4
    /\ Len(PrivilegeCases) = 4 /\ Len(UploadCases) = 8
    /\ atk.phase # "running" =>
          /\ ProbedCases = MatrixOf(atk.module)
          /\ EmittedCases = MatrixOf(atk.module)


\* obj[k] of a decoded payload: NoValue when the payload has no field k
Field(obj, k) ==
    IF \E i \in 1..Len(obj) : obj[i][1] = k
    THEN Some(obj[CHOOSE i \in 1..Len(obj) : obj[i][1] = k][2])
    ELSE NoValue

\* every field appears once
WellFormed(obj) == \A i, j \in 1..Len(obj) : obj[i][1] = obj[j][1] => i = j

\* out is src with the fields of changes set to their new values, and nothing else
\* added, dropped or changed
MutatedOnly(out, src, changes) ==
    /\ WellFormed(out)
    /\ \A k \in ClaimKeys :
          Field(out, k) = IF Field(changes, k) # NoValue THEN Field(changes, k) ELSE Field(src, k)
    /\ \A i \in 1..Len(out) : out[i][1] \in ClaimKeys

\* exp values that lie in the past ("P") as against the future ("F")
PastTimestamps == {"P"}

(* C20: for every valid source token and each forged variant, the decoded   *)
(* payload of the forged token is the source payload with exactly the       *)
(* intended mutation: expired has exp set to a past timestamp, tampered and *)
(* no-algorithm have the patch merged over the source payload, and          *)
(* role-escalated has role overwritten; every other field is unchanged. The *)
(* no-algorithm token has the header alg 'none' and an empty signature.     *)
C20_ForgeRoundTrip ==
    (call.fn = "forge" /\ ret.done) =>
        LET src == decodeJwtPayload(call.token)
            out == decodeJwtPayload(ret.forged.token)
            parts == split(ret.forged.token)
        IN  /\ src.ok /\ ret.forged.ok /\ out.ok
            /\ call.variant = "expired" =>
                  /\ Field(out.payload, "e") # NoValue
                  /\ Field(out.payload, "e")[1] \in PastTimestamps
                  /\ MutatedOnly(out.payload, src.payload, <<(<<"e", Field(out.payload, "e")[1]>>)>>)
            /\ call.variant \in {"tampered", "none"} =>
                  MutatedOnly(out.payload, src.payload, call.patch)
            /\ call.variant = "role" =>
                  MutatedOnly(out.payload, src.payload, <<(<<"r", call.role>>)>>)
            /\ call.variant = "none" =>
                  /\ Len(parts) = 3
                  /\ parts[1] = NoneHeader /\ parts[1] # split(call.token)[1]
                  /\ parts[3] = <<>>

\* a role-escalated token whose source already carried another role and a live exp
C20_Witness ==
    /\ call.fn = "forge" /\ ret.done /\ call.variant = "role"
    /\ Field(decodeJwtPayload(call.token).payload, "r") = Some("1")
    /\ Field(decodeJwtPayload(call.token).payload, "e") = Some("F")
    /\ call.role = "S"
    /\ Field(decodeJwtPayload(ret.forged.token).payload, "r") = Some("S")
    /\ Field(decodeJwtPayload(ret.forged.token).payload, "e") = Some("F")
    /\ ret.forged.token # call.token


\* the (role, scope, label, timestamp) tuple of an evidence write
TupleOf(w) == <<w.role, w.scope, w.label, w.ms>>

(* C21: two evidence writes whose (role, scope, label, timestamp) tuples    *)
(* differ resolve to different file paths, so the later write, also one in  *)
(* the same millisecond with a different label, leaves the artifact of the  *)
(* earlier write in place.                                                  *)
C21_EvidencePathsCollisionFree ==
    (call.fn = "writeEvidence" /\ ret.written = 2
        /\ TupleOf(call.writes[1]) # TupleOf(call.writes[2])) =>
            /\ evidencePath(call.writes[1]) # evidencePath(call.writes[2])
            /\ \E f \in ret.files : f.by = 1


(* C22: the token tamperPayloadKeepSignature returns has the header segment *)
(* and the signature segment of the source token unchanged and differs from *)
(* it in the payload segment only; and no Token Forge call changes the      *)
(* source token string it was handed.                                       *)
C22_TamperKeepsHeaderAndSignature ==
    /\ [](  (call.fn = "forge" /\ ret.done /\ call.variant = "tampered") =>
               LET src == split(call.token)
                   out == split(ret.forged.token)
               IN  /\ ret.forged.ok
                   /\ Len(src) = 3 /\ Len(out) = 3
                   /\ out[1] = src[1]
                   /\ out[3] = src[3]
                   /\ out[2] = base64UrlEncodeJson(
                                   SpreadMerge(decodeJwtPayload(call.token).payload, call.patch)))
    /\ [][call.fn = "forge" => call'.token = call.token]_vars

\* a patch that changes the payload: the payload segment differs, the signature does not
C22_Witness ==
    /\ call.fn = "forge" /\ ret.done /\ call.variant = "tampered"
    /\ call.patch = <<(<<"r", "S">>)>>
    /\ split(ret.forged.token)[2] # split(call.token)[2]
    /\ split(ret.forged.token)[3] = split(call.token)[3]
    /\ split(ret.forged.token)[3] # <<>>


\* every entry of the list is still there, unchanged, at its index
KeepsEntries(ref) ==
    /\ Len(watch'.arrays[ref]) >= Len(watch.arrays[ref])
    /\ \A i \in 1..Len(watch.arrays[ref]) : watch'.arrays[ref][i] = watch.arrays[ref][i]

(* C23: the event list of each watcher is append-only: no step of the run   *)
(* (a notification, a setContext call, a query, a completed body read, a    *)
(* caller changing a list that getLogs or getIssues returned) removes,      *)
(* changes or moves an event that is in the watcher's list.                 *)
C23_WatcherListsAppendOnly ==
    [][KeepsEntries(LogsRef) /\ KeepsEntries(IssuesRef)]_vars

\* the caller emptied or changed the list it was handed; the watcher's list has its events
C23_Witness ==
    /\ watch.pc = "attached"
    /\ watch.modified # {}
    /\ Len(watch.arrays[IssuesRef]) >= 2
    /\ \E ref \in watch.modified :
          /\ watch.arrays[ref] = <<>>
          /\ \A k \in 1..Len(watch.delivered) : watch.delivered[k].kind = "response"


(* C25: every event in the network watcher's list carries the role and flow *)
(* that the watcher had when the response notification the event belongs to *)
(* was delivered; this includes the sensitive-data event, which is appended *)
(* when the read of the body completes, whatever setContext calls and other *)
(* responses came between the notification and the end of the read.         *)
C25_NetworkEventsCarryDeliveryContext ==
    watch.pc = "attached" =>
        \A i \in 1..Len(watch.arrays[IssuesRef]) :
            LET issue == watch.arrays[IssuesRef][i]
            IN  /\ issue.id \in 1..Len(watch.delivered)
                /\ watch.delivered[issue.id].kind = "response"
                /\ issue.role = watch.delivered[issue.id].context.role
                /\ issue.flow = watch.delivered[issue.id].context.flow

\* a sensitive-data event of the first response, appended after setContext was
\* called and after a second response was handled under the new context
C25_Witness ==
    /\ watch.pc = "attached"
    /\ Len(watch.delivered) = 2
    /\ watch.delivered[1].kind = "response"
    /\ watch.delivered[2].kind = "response"
    /\ watch.delivered[1].context # watch.delivered[2].context
    /\ watch.network = watch.delivered[2].context
    /\ \E i \in 2..Len(watch.arrays[IssuesRef]) :
          /\ watch.arrays[IssuesRef][i].type = "sensitive_data_exposed"
          /\ watch.arrays[IssuesRef][i].id = 1
          /\ watch.arrays[IssuesRef][i - 1].id = 2


\* the conditions that hold for a response whose body has (read) or has not been read
HoldingConditions(response, read) ==
    {t \in {"http_error"} : response.status >= 400}
    \cup {t \in {"slow_response"} : response.durationMs > SlowThresholdMs}
    \cup {t \in {"missing_security_headers"} : response.missing >= 1}
    \cup {t \in {"sensitive_data_exposed"} : read /\ response.body = "sensitive key"}

EventsOf(id) == {i \in 1..Len(watch.arrays[IssuesRef]) : watch.arrays[IssuesRef][i].id = id}

(* C26: for every response the network watcher has handled, its list holds  *)
(* exactly one event per condition that holds for the response (status 400  *)
(* or more, duration above the slow threshold, at least one required header *)
(* missing, a sensitive key in the body once the body has been read), each  *)
(* event of the type of its one condition: between zero and four events,    *)
(* never one event for several conditions and never two for one.            *)
C26_OneEventPerHoldingCondition ==
    watch.pc = "attached" =>
        \A id \in 1..Len(watch.delivered) :
            watch.delivered[id].kind = "response" =>
                LET read == \A r \in watch.reads : r.id # id
                    types == {watch.arrays[IssuesRef][i].type : i \in EventsOf(id)}
                IN  /\ types = HoldingConditions(watch.delivered[id].response, read)
                    /\ Cardinality(EventsOf(id)) = Cardinality(types)

\* a response for which all four conditions hold, with its four events, and one for
\* which none holds, with no event
C26_Witness ==
    /\ watch.pc = "attached"
    /\ watch.reads = {}
    /\ Len(watch.delivered) = 2
    /\ watch.delivered[1].kind = "response"
    /\ watch.delivered[2].kind = "response"
    /\ Cardinality(EventsOf(1)) = 4
    /\ Cardinality(HoldingConditions(watch.delivered[1].response, TRUE)) = 4
    /\ EventsOf(2) = {}
    /\ HoldingConditions(watch.delivered[2].response, TRUE) = {}


(* C24: while an input-fuzz case or a file-fuzz case runs, the context of   *)
(* the console and the network watcher is the role and flow of that case,   *)
(* because the orchestrator set it before the case began; an event captured *)
(* during the case is then tagged with the role and flow of the case.       *)
C24_ContextSetBeforeEveryStep ==
    edge.pc \in {"window", "capture"} => edge.context = EngineContext(edge.engine)


\* the result of the case that a step of runSingleCase has just classified
Classified == IF edge'.pc = "capture" THEN edge'.held[1] ELSE edge'.results[Len(edge'.results)]

(* C27: the severity of an input-fuzz case is decided by the index window   *)
(* alone: the case is FAIL exactly if the console or the network list is    *)
(* longer when the case takes its slices than it was when the case read its *)
(* start indexes, whatever response the added entries belong to; an issue   *)
(* of a response delivered during an earlier case that is pushed inside the *)
(* window is counted for the later case.                                    *)
C27_WindowCountsByIndexOnly ==
    [][(/\ edge.pc = "window" /\ edge.engine = "input"
        /\ edge'.pc \notin {"window", "rejected"}) =>
           (Classified.severity = "FAIL"
               <=> (Len(edge.console) - edge.c0) + (Len(edge.network) - edge.n0) > 0)]_vars

\* a case is FAIL with its rejection message shown, and the one entry of its window
\* is the sensitive-data issue of a response delivered during the case before
C27_Witness ==
    /\ edge.pc = "capture" /\ edge.engine = "input"
    /\ Len(edge.results) >= 1
    /\ edge.held[1].severity = "FAIL"
    /\ edge.held[1].uiError
    /\ edge.late = 1
    /\ Len(edge.console) = edge.c0
    /\ Len(edge.network) = edge.n0 + 1
    /\ edge.network[Len(edge.network)].type = "sensitive_data_exposed"


\* the modules in the order the claim gives them, and the pipelines they belong to
ModuleOrder ==
    <<"candidate", "recruiter", "companyAdmin", "superAdmin",
      "jwt", "idor", "upload", "privilege", "ratelimit", "input", "file">>
RankOf == [m \in Range(ModuleOrder) |-> CHOOSE i \in 1..Len(ModuleOrder) : ModuleOrder[i] = m]
Rank(module) == RankOf[module]
FlowModules == {"candidate", "recruiter", "companyAdmin", "superAdmin"}
SuiteAttackModules == {"jwt", "idor", "upload", "privilege", "ratelimit"}

\* the steps and cases among the items of a plan or among the findings of a run
StepsOf(items) ==
    SelectSeq(items, LAMBDA it : it.module \in DOMAIN RankOf /\ it.step # "return")

\* no step of a module comes after a step of a module that is later in the order
InModuleOrder(steps) ==
    \A i \in 1..(Len(steps) - 1) : Rank(steps[i].module) <= Rank(steps[i + 1].module)

\* only the pipelines --only selects contribute steps
ModeRespected(only, steps) ==
    \A i \in 1..Len(steps) :
        /\ only = "attacks" => steps[i].module \in SuiteAttackModules
        /\ only \in {"flows", "performance"} => steps[i].module \in FlowModules

\* what executeSuite plans for each --only mode, with and without form fields
PlansInOrder ==
    \A only \in OnlyModes, hasFields \in BOOLEAN :
        /\ InModuleOrder(StepsOf(executeSuite[only][hasFields]))
        /\ ModeRespected(only, StepsOf(executeSuite[only][hasFields]))

(* C28: the steps a run executes are those of the flows (candidate,         *)
(* recruiter, companyAdmin, superAdmin), then of the attacks (jwt, idor,    *)
(* upload, privilege, ratelimit), then of the edge cases (input, file), one *)
(* at a time: a step starts only when every step before it in the plan has  *)
(* finished, and no step of an earlier module follows a step of a later     *)
(* one; with --only=attacks only attack steps run, and with --only=flows or *)
(* --only=performance only flow steps.                                      *)
C28_ModulesInFixedOrder ==
    run.pc # "idle" =>
        LET done == StepsOf(run.emitted)
        IN  /\ PlansInOrder
            /\ InModuleOrder(done) /\ ModeRespected(run.only, done)
            /\ (run.pc = "suite" /\ run.pos <= Len(plan) /\ done # <<>>
                    /\ Cur.module \in DOMAIN RankOf) =>
                   Rank(done[Len(done)].module) <= Rank(Cur.module)

\* a run with --only=all that has finished the four flows, the jwt and the idor
\* module and is in the upload module
C28_Witness ==
    /\ run.pc = "suite" /\ run.only = "all"
    /\ Cur.module = "upload"
    /\ {run.emitted[i].module : i \in 1..Len(run.emitted)}
           = FlowModules \cup {"jwt", "idor", "upload"}
    /\ Len(plan) > run.pos
    /\ plan[Len(plan) - 1].module = "file"


(* C29: more than one request is in flight only during the concurrent flood *)
(* scenario (a sequential burst sends its next request after the answer to  *)
(* the one before), and when a burst is over, with its statuses or with a   *)
(* failure, every request it sent has been answered or has failed: none is  *)
(* still in flight.                                                         *)
C29_OverlapOnlyInConcurrentBurst ==
    flood.phase # "idle" =>
        /\ flood.inflight > 1 =>
              (flood.idx <= Len(FloodCases) /\ FloodCases[flood.idx].concurrent)
        /\ (flood.phase = "running" /\ flood.idx <= Len(FloodCases)
                /\ ~FloodCases[flood.idx].concurrent) => flood.inflight <= 1
        /\ flood.phase # "running" => flood.inflight = 0


\* the probes that present candidate A's valid token as their credential
PresentsCandidateA(f) ==
    \/ /\ f.module = "idor"
       /\ \E c \in Range(IdorCases) : c.attack = f.step /\ c.token = "candidateA"
    \/ f.module = "upload"
    \/ /\ f.module = "privilege"
       /\ \E c \in Range(PrivilegeCases) : c.attack = f.step /\ c.token = "candidateA"
    \/ /\ f.module = "ratelimit"
       /\ f.step \in {"application_flood_20", "concurrent_cv_upload_10"}

\* the case of the jwt module whose token is built by logging candidate A out
SendsLogout(f) == f.module = "jwt" /\ f.step = "reused_after_logout"

(* C30: in a run with the attacks, no probe that presents candidate A's     *)
(* valid token as a live credential is made after the logout request that   *)
(* ends candidate A's session has been sent.                                *)
C30_LogoutAfterEveryUseOfToken ==
    run.pc # "idle" =>
        \A i, j \in 1..Len(run.emitted) :
            (i < j /\ SendsLogout(run.emitted[i])) => ~PresentsCandidateA(run.emitted[j])

=============================================================================
